---- MODULE Spec2Model ----
(***************************************************************************)
(* Model of the buzz voice pipeline (src-tauri/src/lib.rs) and of the      *)
(* ChatGPT webview bridge (src-tauri/src/transcription/chatgpt.rs).        *)
(*                                                                         *)
(* Spec          hotkey trigger tasks under the execution lock             *)
(* FairSpec      Spec plus transcribe_audio requests, with fair scheduling *)
(* SpecDelegate  PipelineRuntimeState / AppPipelineDelegate driven call by  *)
(*               call, as the unit test of lib.rs drives begin_session     *)
(* SpecBridge    wait_for_webview_bridge_callback on one listener          *)
(* SpecErrors    the error mappings of the two provider variants           *)
(* SpecProvider  callers of the ChatGPT provider, bridged and direct       *)
(* FairSpecProvider  SpecProvider with fair scheduling                     *)
(* SpecHistory   HistoryStore (history_store/mod.rs)                        *)
(* SpecStats     StatsStore (stats_store/mod.rs)                            *)
(***************************************************************************)
EXTENDS Integers, Sequences, FiniteSets, TLC

\* ------------------------------------------------------------------ bounds
MaxTriggers == 3
MaxDirect == 1
MaxFairTriggers == 2
MaxSessions == 2
MaxCalls == 2
MaxConnections == 3
MaxCallers == 2
MaxEntries == 3
MaxRecorders == 2
MaxRecords == 2
MaxDay == 1

\* --------------------------------------------------------------- constants
DEFAULT_REQUEST_TIMEOUT_SECS == 180
BRIDGE_REQUEST_TIMEOUT_SECS == 180
MAX_HISTORY_PAGE_SIZE == 200
DEFAULT_HISTORY_WINDOW_DAYS == 30

\* ------------------------------------------------------------- value sets
Tasks == 1..MaxTriggers
Reqs == (MaxTriggers + 1)..(MaxTriggers + MaxDirect)
Harness == 0
Origins == {Harness} \cup Tasks \cup Reqs
None == -1

AppStatus == {"Idle", "Listening", "Transcribing", "Error"}
Texts == {"hello", "world"}

EVENT_STATUS_CHANGED == "voice://status-changed"
EVENT_TRANSCRIPT_READY == "voice://transcript-ready"
EVENT_PIPELINE_ERROR == "voice://pipeline-error"

Ok(v) == [ok |-> TRUE, val |-> v]
Err(m) == [ok |-> FALSE, val |-> m]
Unit == "()"
Wav == "wav"

VARIABLES
    next_session_id,    \* PipelineRuntimeState.next_session_id
    active_session_id,  \* PipelineRuntimeState.active_session_id
    execution_lock,     \* PipelineRuntimeState.execution_lock: holder task, 0 when free
    status,             \* AppState.status_notifier current status
    emitted,            \* events handed to app.emit, per originating task, oldest first
    inserted,           \* texts handed to the text insertion service, per task
    acks,               \* HotkeyService.acknowledge_transition calls, per task
    hotkey_recording,   \* HotkeyService.is_recording()
    calls,              \* every delegate call made, per task, oldest first
    ret,                \* Result returned by the latest delegate call
    pc,                 \* position of each hotkey trigger task
    kind,               \* "started" or "stopped" trigger of each task
    fetched,            \* begin_session: value read by fetch_add, per task
    recording_seen,     \* what hotkey_service.is_recording() answered the stop task
    audio,              \* wav bytes held by the task
    session,            \* session id bound to the task's delegate
    text,               \* transcript held by the task
    stage,              \* failed stage held by the task
    dpc,                \* position of each direct transcribe_audio request
    issued,             \* SpecDelegate: ids returned by begin_session, oldest first
    bpc,                \* bridged call: "idle", "waiting", "resolved" or "failed"
    expected_request_id, \* request id the bound listener waits for
    handled,            \* connections the listener accepted: response written, id carried
    bridge_result,      \* what wait_for_webview_bridge_callback returned
    request_timeout_secs, \* ChatGptTranscriptionConfig.request_timeout_secs
    waited,             \* seconds since invoke_webview_bridge began to await the callback
    listener_bound,     \* the callback TcpListener of the bridged call is bound
    mapped,             \* latest failed response handed to an error mapping, and its error
    request_lock,       \* ChatGptTranscriptionProvider.request_lock: holder, 0 when free
    vpc,                \* position of each caller of the provider
    via,                \* "webview" (transcribe_via_webview) or "http" (transcribe), per caller
    auth_method,        \* AuthStore: current_auth_method()
    stored,             \* AuthStore: chatgpt_credentials()
    credentials,        \* auth_context: the credentials the caller read
    now_read,           \* auth_context: what now_epoch_seconds() answered the caller
    refreshed,          \* auth_context: what oauth::refresh_access_token answered the caller
    auth,               \* what auth_context returned to the caller
    listeners,          \* callers whose callback listener is bound
    request,            \* transcribe_via_webview: the WebviewBridgeRequest of the caller
    invoked,            \* invoke_webview_bridge: callback_port, expected_request_id, script
    outcome,            \* what the provider returned to the caller
    on_delta,           \* TranscriptionOptions.on_delta of the call is Some
    deltas,             \* the texts the on_delta callback of the call was invoked with
    returned,           \* TranscriptionResult.text of the call, when it returned Ok
    history_file,       \* HistoryStore: contents of the file at file_path
    backups,            \* HistoryStore: number of .corrupt-...bak files beside it
    live_ids,           \* ids added, or found in the file, and not deleted or cleared since
    last_call,          \* the latest HistoryStore call: its arguments and what it returned
    stats_file,         \* StatsStore: contents of the file at file_path
    stats_backups,      \* StatsStore: number of .corrupt-...bak files beside it
    today,              \* the local calendar day, as Local::now().date_naive() returns it
    spc,                \* where each record_transcription call is: "idle" | "lock"
    recording,          \* locals of each record_transcription call before it takes io_lock
    records,            \* number of record_transcription calls made
    stats_report,       \* what get_usage_stats returned, while the day and the file last
    stats_last          \* the latest StatsStore operation that held io_lock

pipelineVars == <<next_session_id, active_session_id, execution_lock, status, emitted,
                  inserted, acks, hotkey_recording, calls, ret, pc, kind, fetched,
                  recording_seen, audio, session, text, stage, dpc, issued>>

bridgeVars == <<bpc, expected_request_id, handled, bridge_result, request_timeout_secs,
               waited, listener_bound>>

errorVars == <<mapped>>

providerVars == <<request_lock, vpc, via, auth_method, stored, credentials, now_read,
                 refreshed, auth, listeners, request, invoked, outcome, on_delta,
                 deltas, returned>>

historyVars == <<history_file, backups, live_ids, last_call>>

statsVars == <<stats_file, stats_backups, today, spc, recording, records, stats_report,
              stats_last>>

vars == <<pipelineVars, bridgeVars, errorVars, providerVars, historyVars, statsVars>>

offPipeline == <<bridgeVars, errorVars, providerVars, historyVars, statsVars>>

offBridge == <<pipelineVars, errorVars, providerVars, historyVars, statsVars>>

\* ------------------------------------------------- PipelineRuntimeState

\* fetch_add(1) + 1 of begin_session
begin_session_fetch == next_session_id + 1

\* mutant: an older session still counts as active
is_session_active_or_older(session_id) == active_session_id >= session_id

is_session_active(session_id) == active_session_id = session_id

\* variant: a delegate without a session is never active
delegate_is_session_active_bound_only(d) ==
    IF d # None THEN is_session_active(d) ELSE FALSE

\* AppPipelineDelegate::is_session_active: a delegate without a session is always active
delegate_is_session_active(d) ==
    IF d # None THEN is_session_active(d) ELSE TRUE

\* begin_session as one call: the new id, begin_session_fetch, is stored as the active
\* one and returned
begin_session ==
    /\ next_session_id' = next_session_id + 1
    /\ active_session_id' = begin_session_fetch

\* ------------------------------------------------------ effects on the app

Call(d, op, arg) == [session |-> d, op |-> op, arg |-> arg]
Event(name, payload) == [event |-> name, payload |-> payload]

\* the log of origin `by` with one more entry
Logged(log, by, entry) == [log EXCEPT ![by] = Append(@, entry)]

set_status_for_state(by, st) ==
    /\ status' = st
    /\ emitted' = Logged(emitted, by, Event(EVENT_STATUS_CHANGED, st))

emit_transcript_event(by, transcript) ==
    emitted' = Logged(emitted, by, Event(EVENT_TRANSCRIPT_READY, transcript))

emit_pipeline_error_event(by, stg) ==
    emitted' = Logged(emitted, by, Event(EVENT_PIPELINE_ERROR, stg))

\* HotkeyService (not in src/): the recording flag follows the acknowledged transitions
acknowledge_transition(by, transition, success) ==
    /\ acks' = Logged(acks, by, [transition |-> transition, success |-> success])
    /\ hotkey_recording' = IF success THEN (transition = "Started") ELSE hotkey_recording

\* ------------------------------------------ impl VoicePipelineDelegate

set_status(by, d, st) ==
    /\ IF delegate_is_session_active(d)
          THEN set_status_for_state(by, st)
          ELSE UNCHANGED <<status, emitted>>
    /\ calls' = Logged(calls, by, Call(d, "set_status", st))
    /\ UNCHANGED <<inserted, acks, hotkey_recording, ret>>

\* mutant: the session guard is inverted
emit_transcript_inverted(by, d, transcript) ==
    /\ IF ~delegate_is_session_active(d)
          THEN emit_transcript_event(by, transcript)
          ELSE UNCHANGED emitted
    /\ calls' = Logged(calls, by, Call(d, "emit_transcript", transcript))
    /\ UNCHANGED <<status, inserted, acks, hotkey_recording, ret>>

emit_transcript(by, d, transcript) ==
    /\ IF delegate_is_session_active(d)
          THEN emit_transcript_event(by, transcript)
          ELSE UNCHANGED emitted
    /\ calls' = Logged(calls, by, Call(d, "emit_transcript", transcript))
    /\ UNCHANGED <<status, inserted, acks, hotkey_recording, ret>>

\* mutant: the session guard is inverted
emit_error_inverted(by, d, stg) ==
    /\ IF ~delegate_is_session_active(d)
          THEN emit_pipeline_error_event(by, stg)
          ELSE UNCHANGED emitted
    /\ calls' = Logged(calls, by, Call(d, "emit_error", stg))
    /\ UNCHANGED <<status, inserted, acks, hotkey_recording, ret>>

emit_error(by, d, stg) ==
    /\ IF delegate_is_session_active(d)
          THEN emit_pipeline_error_event(by, stg)
          ELSE UNCHANGED emitted
    /\ calls' = Logged(calls, by, Call(d, "emit_error", stg))
    /\ UNCHANGED <<status, inserted, acks, hotkey_recording, ret>>

on_recording_started(by, d, success) ==
    /\ acknowledge_transition(by, "Started", success)
    /\ calls' = Logged(calls, by, Call(d, "on_recording_started", ToString(success)))
    /\ UNCHANGED <<status, emitted, inserted, ret>>

on_recording_stopped(by, d, success) ==
    /\ acknowledge_transition(by, "Stopped", success)
    /\ calls' = Logged(calls, by, Call(d, "on_recording_stopped", ToString(success)))
    /\ UNCHANGED <<status, emitted, inserted, ret>>

\* svc is what the audio capture service answers
start_recording(by, d, svc) ==
    /\ ret' = svc
    /\ calls' = Logged(calls, by, Call(d, "start_recording", Unit))
    /\ UNCHANGED <<status, emitted, inserted, acks, hotkey_recording>>

\* mutant: the recorded bytes are dropped
stop_recording_drops_audio(by, d, svc) ==
    /\ ret' = IF svc.ok THEN Ok("") ELSE svc
    /\ calls' = Logged(calls, by, Call(d, "stop_recording", Unit))
    /\ UNCHANGED <<status, emitted, inserted, acks, hotkey_recording>>

stop_recording(by, d, svc) ==
    /\ ret' = svc
    /\ calls' = Logged(calls, by, Call(d, "stop_recording", Unit))
    /\ UNCHANGED <<status, emitted, inserted, acks, hotkey_recording>>

\* transcribe, up to its await: the orchestrator is cloned and called with the bytes
transcribe(by, d, wav_bytes) ==
    /\ calls' = Logged(calls, by, Call(d, "transcribe", wav_bytes))
    /\ UNCHANGED <<status, emitted, inserted, acks, hotkey_recording, ret>>

\* transcribe, from its await: svc is what the orchestrator answers
transcribe_await(svc) ==
    /\ ret' = svc
    /\ UNCHANGED <<status, emitted, inserted, acks, hotkey_recording, calls>>

\* mutant: the session guard is missing
insert_text_unguarded(by, d, transcript, svc) ==
    /\ inserted' = Logged(inserted, by, transcript)
    /\ ret' = svc
    /\ calls' = Logged(calls, by, Call(d, "insert_text", transcript))
    /\ UNCHANGED <<status, emitted, acks, hotkey_recording>>

\* svc is what the text insertion service answers when it is reached
insert_text(by, d, transcript, svc) ==
    /\ IF ~delegate_is_session_active(d)
          THEN /\ ret' = Ok(Unit)
               /\ UNCHANGED inserted
          ELSE /\ inserted' = Logged(inserted, by, transcript)
               /\ ret' = svc
    /\ calls' = Logged(calls, by, Call(d, "insert_text", transcript))
    /\ UNCHANGED <<status, emitted, acks, hotkey_recording>>

\* ------------------------------------------------------- error mapping
\* Text is a sequence of characters; an Option<String> is NoText or SomeText(text).

Whitespace == {" ", "\t", "\n"}
NoText == [some |-> FALSE, v |-> <<>>]
SomeText(v) == [some |-> TRUE, v |-> v]

RECURSIVE trim_start(_)
trim_start(v) ==
    IF v # <<>> /\ Head(v) \in Whitespace THEN trim_start(Tail(v)) ELSE v

RECURSIVE trim_end(_)
trim_end(v) ==
    IF v # <<>> /\ v[Len(v)] \in Whitespace THEN trim_end(SubSeq(v, 1, Len(v) - 1)) ELSE v

\* str::trim
trim(v) == trim_end(trim_start(v))

\* runs of whitespace become one space
RECURSIVE collapse(_)
collapse(v) ==
    IF v = <<>> THEN <<>>
    ELSE IF Head(v) \notin Whitespace THEN <<Head(v)>> \o collapse(Tail(v))
    ELSE IF Len(v) > 1 /\ v[2] \in Whitespace THEN collapse(Tail(v))
    ELSE <<" ">> \o collapse(Tail(v))

\* normalize_transcript_text: trimmed, internal whitespace collapsed
normalize_transcript_text(v) == collapse(trim(v))

\* normalize_optional_string: the trimmed content, None when nothing is left
normalize_optional_string(value) ==
    IF value.some /\ trim(value.v) # <<>> THEN SomeText(trim(value.v)) ELSE NoText

\* texts a response can carry
TokenInvalid == <<"T", "o", "k", "e", "n", " ", "i", "n", "v", "a", "l", "i", "d">>
MessageTexts == {<<>>, <<" ", "\n">>, TokenInvalid, <<" ">> \o TokenInvalid \o <<"\t">>, <<"n", "o">>}

\* a member of the parsed JSON value: absent, a string, a number, or an object whose own
\* "message" member is absent, a string or a number
Member(t, s, mt, ms) == [t |-> t, s |-> s, mt |-> mt, ms |-> ms]
JsonAbsent == Member("absent", <<>>, "absent", <<>>)
JsonNumber == Member("num", <<>>, "absent", <<>>)
JsonString(s) == Member("str", s, "absent", <<>>)
MessageMembers == {JsonAbsent, JsonNumber} \cup {JsonString(s) : s \in MessageTexts}
ErrorMembers ==
    MessageMembers
        \cup {Member("obj", <<>>, "absent", <<>>), Member("obj", <<>>, "num", <<>>)}
        \cup {Member("obj", <<>>, "str", s) : s \in MessageTexts}

\* a response body: its text, whether serde_json parses it, and the members read from it
JsonRaw == <<"{", "j", "s", "o", "n", "}">>
EmptyBody == [raw |-> <<>>, json |-> FALSE, error |-> JsonAbsent, message |-> JsonAbsent]

TRUNCATE_LEN == 300

\* a JSON body one character longer than the excerpt, with no error or message member: an
\* array holding one number
LongRaw ==
    [i \in 1..(TRUNCATE_LEN + 1) |->
        IF i = 1 THEN "[" ELSE IF i = TRUNCATE_LEN + 1 THEN "]" ELSE "1"]
LongBody == [raw |-> LongRaw, json |-> TRUE, error |-> JsonAbsent, message |-> JsonAbsent]

Bodies ==
    {EmptyBody, LongBody}
        \cup {[raw |-> <<"o", "o", "p", "s">>, json |-> FALSE, error |-> JsonAbsent,
               message |-> JsonAbsent]}
        \cup [raw : {JsonRaw}, json : {TRUE}, error : ErrorMembers, message : MessageMembers]

\* truncate_response_body
truncate_response_body(value) ==
    IF Len(trim(value)) <= TRUNCATE_LEN
        THEN trim(value)
        ELSE SubSeq(trim(value), 1, TRUNCATE_LEN) \o <<".", ".", ".">>

\* value.get("error"): error.as_str(), or else error.get("message")?.as_str()
error_member_text(body) ==
    IF body.error.t = "str" THEN SomeText(body.error.s)
    ELSE IF body.error.t = "obj" /\ body.error.mt = "str" THEN SomeText(body.error.ms)
    ELSE NoText

\* value.get("message").and_then(as_str)
message_member_text(body) ==
    IF body.message.t = "str" THEN SomeText(body.message.s) ELSE NoText

\* variant: the top-level message is looked at before the error member
parse_chatgpt_error_message_message_first(body) ==
    IF ~body.json THEN NoText
    ELSE IF normalize_optional_string(message_member_text(body)).some
        THEN normalize_optional_string(message_member_text(body))
    ELSE IF normalize_optional_string(error_member_text(body)).some
        THEN normalize_optional_string(error_member_text(body))
    ELSE normalize_optional_string(SomeText(truncate_response_body(body.raw)))

\* parse_chatgpt_error_message
parse_chatgpt_error_message(body) ==
    IF ~body.json THEN NoText
    ELSE IF normalize_optional_string(error_member_text(body)).some
        THEN normalize_optional_string(error_member_text(body))
    ELSE IF normalize_optional_string(message_member_text(body)).some
        THEN normalize_optional_string(message_member_text(body))
    ELSE normalize_optional_string(SomeText(truncate_response_body(body.raw)))

\* TranscriptionError
Error(err, message) == [kind |-> err, message |-> message]

NoStatus == [some |-> FALSE, v |-> 0]
SomeStatus(code) == [some |-> TRUE, v |-> code]
NoBody == [some |-> FALSE, v |-> EmptyBody]
SomeBody(body) == [some |-> TRUE, v |-> body]

status_message(code) == <<"ChatGPT request failed with status ", ToString(code)>>

\* variant: the error string of the bridge is used only when the callback has no status
map_bridge_http_error_status_first(http_status, body, bridge_error) ==
    IF normalize_optional_string(bridge_error).some /\ ~http_status.some
        THEN Error("Network", normalize_optional_string(bridge_error).v)
    ELSE LET body_text == IF body.some THEN body.v ELSE EmptyBody
             parsed == parse_chatgpt_error_message(body_text)
             message == IF parsed.some THEN parsed.v
                        ELSE IF http_status.some THEN status_message(http_status.v)
                        ELSE <<"ChatGPT request failed in webview bridge">>
         IN  IF http_status.some /\ http_status.v \in {401, 403} THEN Error("Authentication", message)
             ELSE IF http_status.some /\ http_status.v = 429 THEN Error("RateLimited", message)
             ELSE IF http_status.some /\ http_status.v = 408 THEN Error("Network", message)
             ELSE IF http_status.some /\ http_status.v >= 500 THEN Error("Network", message)
             ELSE Error("Provider", message)

\* map_bridge_http_error(status, body, bridge_error)
map_bridge_http_error(http_status, body, bridge_error) ==
    IF normalize_optional_string(bridge_error).some
        THEN Error("Network", normalize_optional_string(bridge_error).v)
    ELSE LET body_text == IF body.some THEN body.v ELSE EmptyBody
             parsed == parse_chatgpt_error_message(body_text)
             message == IF parsed.some THEN parsed.v
                        ELSE IF http_status.some THEN status_message(http_status.v)
                        ELSE <<"ChatGPT request failed in webview bridge">>
         IN  IF http_status.some /\ http_status.v \in {401, 403} THEN Error("Authentication", message)
             ELSE IF http_status.some /\ http_status.v = 429 THEN Error("RateLimited", message)
             ELSE IF http_status.some /\ http_status.v = 408 THEN Error("Network", message)
             ELSE IF http_status.some /\ http_status.v >= 500 THEN Error("Network", message)
             ELSE Error("Provider", message)

\* StatusCode::is_success, StatusCode::is_server_error
is_success(code) == 200 <= code /\ code < 300
is_server_error(code) == 500 <= code /\ code < 600

\* map_http_error(response): body is response.text().await.unwrap_or_default()
map_http_error(code, body) ==
    LET parsed == parse_chatgpt_error_message(body)
        message == IF parsed.some THEN parsed.v ELSE status_message(code)
    IN  IF code \in {401, 403} THEN Error("Authentication", message)
        ELSE IF code = 429 THEN Error("RateLimited", message)
        ELSE IF code = 408 THEN Error("Network", message)
        ELSE IF is_server_error(code) THEN Error("Network", message)
        ELSE Error("Provider", message)

\* statuses a response can carry (reqwest: 100..=999; the bridge callback: any u16 or none)
StatusCodes == {200, 301, 400, 401, 403, 404, 408, 429, 499, 500, 503, 599, 600}
BridgeErrors == {NoText, SomeText(<<>>), SomeText(<<" ">>), SomeText(<<" ", "d", "n", "s">>)}

NothingMapped ==
    [via |-> "none", status |-> NoStatus, body |-> NoBody, bridge_error |-> NoText,
     error |-> Error("none", <<>>)]

\* ------------------------------------------------------ provider values
Callers == 1..MaxCallers

BRIDGE_CALLBACK_PATH == "/voice/chatgpt-transcribe-callback"

\* ports the system hands to a listener bound to port 0
Ports == {49152, 49153}

\* a callback URL: port, path and the requestId of its query ("" when it is unset)
NoUrl == [port |-> 0, path |-> "", requestId |-> ""]
CallbackUrl(port, id) == [port |-> port, path |-> BRIDGE_CALLBACK_PATH, requestId |-> id]

\* WebviewBridgeRequest: the fields the bridge protocol turns on
NoRequest == [request_id |-> "", callback_url |-> NoUrl]
WebviewBridgeRequest(request_id, url) == [request_id |-> request_id, callback_url |-> url]

\* the locals of invoke_webview_bridge
NoScript == [payload |-> NoRequest]
NotInvoked == [callback_port |-> 0, expected_request_id |-> "", script |-> NoScript]

\* Option<String>
NoString == [some |-> FALSE, v |-> ""]
SomeString(v) == [some |-> TRUE, v |-> v]

\* ChatGptCredentials as chatgpt_credentials() answers them: None, or the stored fields
NoCredentials ==
    [some |-> FALSE, access_token |-> "", refresh_token |-> "", expires_at |-> 0,
     account_id |-> ""]
Credentials(access_token, refresh_token, expires_at, account_id) ==
    [some |-> TRUE, access_token |-> access_token, refresh_token |-> refresh_token,
     expires_at |-> expires_at, account_id |-> account_id]

\* what oauth::refresh_access_token answers: Err(cause), or the refreshed tokens
NotRefreshed ==
    [state |-> "none", access_token |-> "", refresh_token |-> NoString, expires_at |-> 0,
     account_id |-> NoString]
RefreshErr(cause) ==
    [state |-> cause, access_token |-> "", refresh_token |-> NoString, expires_at |-> 0,
     account_id |-> NoString]
RefreshOk(access_token, refresh_token, expires_at, account_id) ==
    [state |-> "ok", access_token |-> access_token, refresh_token |-> refresh_token,
     expires_at |-> expires_at, account_id |-> account_id]

\* Result<ChatGptAuthContext, TranscriptionError>
NoAuth == [kind |-> "none", access_token |-> "", account_id |-> ""]
AuthErr(err) == [kind |-> err, access_token |-> "", account_id |-> ""]
AuthOk(access_token, account_id) ==
    [kind |-> "Ok", access_token |-> access_token, account_id |-> account_id]

\* -------------------------------------------------------- history values
\* Strings are sequences of characters, compared as Rust compares String: byte by byte.

byte(ch) ==
    CASE ch = " " -> 32 [] ch = "0" -> 48 [] ch = "1" -> 49 [] ch = "2" -> 50
      [] ch = "a" -> 97 [] ch = "b" -> 98 [] ch = "p" -> 112 [] ch = "t" -> 116
      [] OTHER -> 120

RECURSIVE string_lt(_, _)
string_lt(a, b) ==
    IF b = <<>> THEN FALSE
    ELSE IF a = <<>> THEN TRUE
    ELSE IF byte(Head(a)) # byte(Head(b)) THEN byte(Head(a)) < byte(Head(b))
    ELSE string_lt(Tail(a), Tail(b))

string_ge(a, b) == ~string_lt(a, b)

\* HistoryEntry (duration_secs and language are carried along and never looked at)
HistoryEntry(id, text_, timestamp, provider) ==
    [id |-> id, text |-> text_, timestamp |-> timestamp, provider |-> provider]

\* the history file: JSON of a list of entries, or text serde_json rejects, or blank text
JsonFile(entries) == [kind |-> "json", entries |-> entries]
MalformedFile == [kind |-> "malformed", entries |-> <<>>]
BlankFile == [kind |-> "blank", entries |-> <<>>]

NoCall ==
    [op |-> "none", id |-> <<>>, limit |-> 0, offset |-> 0, ok |-> TRUE, found |-> FALSE,
     entries |-> <<>>, error |-> ""]

\* ---------------------------------------------------------- stats values
\* u64: four 16-bit limbs, the most significant first
U64(n) == <<0, 0, 0, n>>
U64_MAX == <<65535, 65535, 65535, 65535>>

\* the sum of two u64 as five limbs, the first one the carry out of 64 bits
wide_add(a, b) ==
    LET s4 == a[4] + b[4]
        s3 == a[3] + b[3] + (s4 \div 65536)
        s2 == a[2] + b[2] + (s3 \div 65536)
        s1 == a[1] + b[1] + (s2 \div 65536)
    IN  <<s1 \div 65536, s1 % 65536, s2 % 65536, s3 % 65536, s4 % 65536>>

\* variant: u64::wrapping_add
wrapping_add(a, b) == Tail(wide_add(a, b))

\* u64::saturating_add
saturating_add(a, b) == IF wide_add(a, b)[1] # 0 THEN U64_MAX ELSE Tail(wide_add(a, b))

\* f64: a finite number of whole seconds, or NaN, or an infinity
F64(v) == [class |-> "finite", v |-> v]
NaN == [class |-> "nan", v |-> 0]
Infinity == [class |-> "inf", v |-> 1]
NegInfinity == [class |-> "inf", v |-> -1]

\* f64 + f64
f64_add(a, b) ==
    IF a.class = "nan" \/ b.class = "nan" THEN NaN
    ELSE IF a.class = "inf" /\ b.class = "inf" THEN IF a.v = b.v THEN a ELSE NaN
    ELSE IF a.class = "inf" THEN a
    ELSE IF b.class = "inf" THEN b
    ELSE F64(a.v + b.v)

\* variant: a negative duration is kept
sanitize_seconds_finite(value) == IF value.class = "finite" THEN value ELSE F64(0)

\* sanitize_seconds
sanitize_seconds(value) ==
    IF value.class = "finite" /\ value.v > 0 THEN value ELSE F64(0)

\* NaiveDate: a day number; the days of the model are far from NaiveDate::MIN, so that
\* checked_sub_signed returns Some
checked_sub_signed(date, days) == date - days

\* a key of daily_stats: the text date_key writes for a date, or a text that
\* parse_date_key refuses
date_key(date) == <<date>>
NotADate == <<>>
parses(key) == Len(key) = 1

DailyStats(transcriptions, words, recording_seconds) ==
    [transcriptions |-> transcriptions, words |-> words,
     recording_seconds |-> recording_seconds]
DailyStats_default == DailyStats(U64(0), U64(0), F64(0))

\* BTreeMap::new()
NoDays == [key \in {} |-> DailyStats_default]

UsageStats(total_transcriptions, total_words, total_recording_seconds, daily_stats,
           last_updated) ==
    [total_transcriptions |-> total_transcriptions, total_words |-> total_words,
     total_recording_seconds |-> total_recording_seconds, daily_stats |-> daily_stats,
     last_updated |-> last_updated]

\* variant: the default counts one transcription on the day `now`
UsageStats_default_one(now) ==
    UsageStats(U64(0), U64(0), F64(0),
               [key \in {date_key(now)} |-> DailyStats(U64(1), U64(0), F64(0))],
               date_key(now))

\* impl Default for UsageStats, on the day `now`
UsageStats_default(now) == UsageStats(U64(0), U64(0), F64(0), NoDays, date_key(now))

\* the stats file: JSON of a UsageStats, or text serde_json rejects, or blank text
JsonStats(stats) == [kind |-> "json", stats |-> stats]
MalformedStats == [kind |-> "malformed", stats |-> UsageStats_default(0)]
BlankStats == [kind |-> "blank", stats |-> UsageStats_default(0)]

Recorders == 1..MaxRecorders
NoRecording ==
    [word_count |-> U64(0), duration |-> F64(0), clamped |-> FALSE, today |-> NotADate]
NoReport == [returned |-> FALSE]

\* -------------------------------------------------------------------- Init

Init ==
    /\ next_session_id = 0
    /\ active_session_id = 0
    /\ execution_lock = 0
    /\ status = "Idle"
    /\ emitted = [o \in Origins |-> <<>>]
    /\ inserted = [o \in Origins |-> <<>>]
    /\ acks = [o \in Origins |-> <<>>]
    /\ hotkey_recording = FALSE
    /\ calls = [o \in Origins |-> <<>>]
    /\ ret = Ok(Unit)
    /\ pc = [t \in Tasks |-> "unspawned"]
    /\ kind = [t \in Tasks |-> "none"]
    /\ fetched = [t \in Tasks |-> 0]
    /\ recording_seen = [t \in Tasks |-> "unread"]
    /\ audio = [t \in Tasks |-> ""]
    /\ session = [t \in Tasks |-> None]
    /\ text = [t \in Tasks |-> ""]
    /\ stage = [t \in Tasks |-> ""]
    /\ dpc = [r \in Reqs |-> "idle"]
    /\ issued = <<>>
    /\ bpc = "idle"
    /\ expected_request_id = ""
    /\ request_timeout_secs = DEFAULT_REQUEST_TIMEOUT_SECS
    /\ waited = 0
    /\ listener_bound = FALSE
    /\ mapped = NothingMapped
    /\ request_lock = 0
    /\ vpc = [c \in Callers |-> "idle"]
    /\ via = [c \in Callers |-> "none"]
    /\ auth_method = "none"
    /\ stored = NoCredentials
    /\ credentials = [c \in Callers |-> NoCredentials]
    /\ now_read = [c \in Callers |-> 0]
    /\ refreshed = [c \in Callers |-> NotRefreshed]
    /\ auth = [c \in Callers |-> NoAuth]
    /\ listeners = {}
    /\ request = [c \in Callers |-> NoRequest]
    /\ invoked = [c \in Callers |-> NotInvoked]
    /\ outcome = [c \in Callers |-> "pending"]
    /\ on_delta = [c \in Callers |-> FALSE]
    /\ deltas = [c \in Callers |-> <<>>]
    /\ returned = [c \in Callers |-> NoText]
    /\ history_file = JsonFile(<<>>)
    /\ backups = 0
    /\ live_ids = {}
    /\ last_call = NoCall
    /\ stats_file = JsonStats(UsageStats_default(0))
    /\ stats_backups = 0
    /\ today = 0
    /\ spc = [c \in Recorders |-> "idle"]
    /\ recording = [c \in Recorders |-> NoRecording]
    /\ records = 0
    /\ stats_report = NoReport
    /\ stats_last = "none"
    /\ handled = <<>>
    /\ bridge_result = [kind |-> "pending", request_id |-> ""]

\* ------------------------------------------- register_pipeline_handlers

InBody(t) == pc[t] \notin {"unspawned", "lock", "done"}

Goto(t, label) == pc' = [pc EXCEPT ![t] = label]

runtimeVars == <<next_session_id, active_session_id, execution_lock>>
effectVars == <<status, emitted, inserted, acks, hotkey_recording, calls, ret>>
localVars == <<kind, fetched, recording_seen, audio, session, text, stage>>

\* app.listen(EVENT_RECORDING_STARTED | EVENT_RECORDING_STOPPED): the handler spawns a task
Trigger(t, k) ==
    /\ pc[t] = "unspawned"
    /\ \A u \in Tasks : u < t => pc[u] # "unspawned"
    /\ kind' = [kind EXCEPT ![t] = k]
    /\ Goto(t, "lock")
    /\ UNCHANGED <<runtimeVars, effectVars, fetched, recording_seen, audio, session,
                   text, stage, dpc, issued, offPipeline>>

\* mutant: the lock is taken without waiting for it to be free
lock_acquire_unchecked(t) == execution_lock' = t

\* let _guard = runtime_state.execution_lock.lock().await
lock_acquire(t) ==
    /\ execution_lock = 0
    /\ execution_lock' = t

\* variant: the task goes on to begin_session without the lock
AcquireLock_not_taken(t) ==
    /\ pc[t] = "lock"
    /\ Goto(t, "begin_fetch")
    /\ UNCHANGED <<runtimeVars, effectVars, localVars, dpc, issued, offPipeline>>

AcquireLock(t) ==
    /\ pc[t] = "lock"
    /\ lock_acquire(t)
    /\ Goto(t, "begin_fetch")
    /\ UNCHANGED <<next_session_id, active_session_id, effectVars, localVars, dpc, issued,
                   offPipeline>>

\* begin_session, first half: next_session_id.fetch_add(1, Relaxed) + 1
BeginFetch(t) ==
    /\ pc[t] = "begin_fetch"
    /\ fetched' = [fetched EXCEPT ![t] = begin_session_fetch]
    /\ next_session_id' = next_session_id + 1
    /\ Goto(t, "begin_store")
    /\ UNCHANGED <<active_session_id, execution_lock, effectVars, kind, recording_seen,
                   audio, session, text, stage, dpc, issued, offPipeline>>

\* begin_session, second half: active_session_id.store(session_id, Relaxed), and
\* AppPipelineDelegate::for_session(app, session_id)
BeginStore(t) ==
    /\ pc[t] = "begin_store"
    /\ active_session_id' = fetched[t]
    /\ session' = [session EXCEPT ![t] = fetched[t]]
    /\ Goto(t, IF kind[t] = "started" THEN "start_recording" ELSE "is_recording")
    /\ UNCHANGED <<next_session_id, execution_lock, effectVars, kind, fetched,
                   recording_seen, audio, text, stage, dpc, issued, offPipeline>>

\* the guard is dropped when the spawned future returns
ReleaseLock(t) ==
    /\ pc[t] = "release"
    /\ execution_lock' = 0
    /\ Goto(t, "done")
    /\ UNCHANGED <<next_session_id, active_session_id, effectVars, localVars, dpc, issued,
                   offPipeline>>

\* mutant: the early return is missing
StopCheckRecording_no_return(t) ==
    /\ pc[t] = "is_recording"
    /\ recording_seen' = [recording_seen EXCEPT ![t] = IF hotkey_recording THEN "yes" ELSE "no"]
    /\ IF ~hotkey_recording
          THEN acknowledge_transition(t, "Stopped", FALSE)
          ELSE UNCHANGED <<acks, hotkey_recording>>
    /\ Goto(t, "stop_recording")
    /\ UNCHANGED <<runtimeVars, status, emitted, inserted, calls, ret, kind, fetched, audio,
                   session, text, stage, dpc, issued, offPipeline>>

\* if !hotkey_service.is_recording() { acknowledge_transition(Stopped, false); return; }
StopCheckRecording(t) ==
    /\ pc[t] = "is_recording"
    /\ recording_seen' = [recording_seen EXCEPT ![t] = IF hotkey_recording THEN "yes" ELSE "no"]
    /\ IF ~hotkey_recording
          THEN /\ acknowledge_transition(t, "Stopped", FALSE)
               /\ Goto(t, "release")
          ELSE /\ UNCHANGED <<acks, hotkey_recording>>
               /\ Goto(t, "stop_recording")
    /\ UNCHANGED <<runtimeVars, status, emitted, inserted, calls, ret, kind, fetched, audio,
                   session, text, stage, dpc, issued, offPipeline>>

\* ------------------------------------------------ VoicePipeline (not in src/)

Step(t, from, to) == pc[t] = from /\ Goto(t, to)

frame == <<runtimeVars, kind, fetched, recording_seen, session, dpc, issued, offPipeline>>

\* handle_hotkey_started
StartRecording(t, svc) ==
    /\ pc[t] = "start_recording"
    /\ start_recording(t, session[t], svc)
    /\ Goto(t, "on_recording_started")
    /\ stage' = [stage EXCEPT ![t] = IF ret'.ok THEN "" ELSE "capture"]
    /\ UNCHANGED <<frame, audio, text>>

AckStarted(t) ==
    /\ pc[t] = "on_recording_started"
    /\ on_recording_started(t, session[t], stage[t] = "")
    /\ Goto(t, IF stage[t] = "" THEN "set_listening" ELSE "emit_error")
    /\ UNCHANGED <<frame, audio, text, stage>>

SetListening(t) ==
    /\ Step(t, "set_listening", "release")
    /\ set_status(t, session[t], "Listening")
    /\ UNCHANGED <<frame, audio, text, stage>>

\* handle_hotkey_stopped
StopRecording(t, svc) ==
    /\ pc[t] = "stop_recording"
    /\ stop_recording(t, session[t], svc)
    /\ Goto(t, "on_recording_stopped")
    /\ audio' = [audio EXCEPT ![t] = IF ret'.ok THEN ret'.val ELSE ""]
    /\ stage' = [stage EXCEPT ![t] = IF ret'.ok THEN "" ELSE "capture"]
    /\ UNCHANGED <<frame, text>>

AckStopped(t) ==
    /\ pc[t] = "on_recording_stopped"
    /\ on_recording_stopped(t, session[t], stage[t] = "")
    /\ Goto(t, IF stage[t] = "" THEN "set_transcribing" ELSE "emit_error")
    /\ UNCHANGED <<frame, audio, text, stage>>

SetTranscribing(t) ==
    /\ Step(t, "set_transcribing", "transcribe")
    /\ set_status(t, session[t], "Transcribing")
    /\ UNCHANGED <<frame, audio, text, stage>>

Transcribe(t) ==
    /\ Step(t, "transcribe", "transcribe_await")
    /\ transcribe(t, session[t], audio[t])
    /\ UNCHANGED <<frame, audio, text, stage>>

TranscribeReturn(t, svc) ==
    /\ pc[t] = "transcribe_await"
    /\ transcribe_await(svc)
    /\ IF ret'.ok
          THEN /\ text' = [text EXCEPT ![t] = ret'.val]
               /\ Goto(t, "insert_text")
               /\ UNCHANGED stage
          ELSE /\ stage' = [stage EXCEPT ![t] = "transcription"]
               /\ Goto(t, "emit_error")
               /\ UNCHANGED text
    /\ UNCHANGED <<frame, audio>>

InsertText(t, svc) ==
    /\ pc[t] = "insert_text"
    /\ insert_text(t, session[t], text[t], svc)
    /\ IF ret'.ok
          THEN /\ Goto(t, "emit_transcript")
               /\ UNCHANGED stage
          ELSE /\ stage' = [stage EXCEPT ![t] = "insertion"]
               /\ Goto(t, "emit_error")
    /\ UNCHANGED <<frame, audio, text>>

EmitTranscript(t) ==
    /\ Step(t, "emit_transcript", "set_idle")
    /\ emit_transcript(t, session[t], text[t])
    /\ UNCHANGED <<frame, audio, text, stage>>

SetIdle(t) ==
    /\ Step(t, "set_idle", "release")
    /\ set_status(t, session[t], "Idle")
    /\ UNCHANGED <<frame, audio, text, stage>>

\* handle_stage_error
EmitError(t) ==
    /\ Step(t, "emit_error", "set_error")
    /\ emit_error(t, session[t], stage[t])
    /\ UNCHANGED <<frame, audio, text, stage>>

SetError(t) ==
    /\ Step(t, "set_error", "release")
    /\ set_status(t, session[t], "Error")
    /\ UNCHANGED <<frame, audio, text, stage>>

\* --------------------------------------------------------- transcribe_audio

directFrame == <<runtimeVars, pc, localVars, issued, offPipeline>>

\* set_status_for_state(Transcribing), then the orchestrator is awaited
DirectBegin(r) ==
    /\ dpc[r] = "idle"
    /\ \A q \in Reqs : q < r => dpc[q] # "idle"
    /\ set_status_for_state(r, "Transcribing")
    /\ dpc' = [dpc EXCEPT ![r] = "awaiting"]
    /\ UNCHANGED <<directFrame, inserted, acks, hotkey_recording, calls, ret>>

\* mutant: the Err arm returns without spawning handle_stage_error
DirectReturn_no_spawn(r, svc) ==
    /\ dpc[r] = "awaiting"
    /\ IF svc.ok
          THEN set_status_for_state(r, "Idle")
          ELSE UNCHANGED <<status, emitted>>
    /\ dpc' = [dpc EXCEPT ![r] = "done"]
    /\ UNCHANGED <<directFrame, inserted, acks, hotkey_recording, calls, ret>>

\* match result: Ok sets Idle; Err spawns handle_stage_error and returns Err(message)
DirectReturn(r, svc) ==
    /\ dpc[r] = "awaiting"
    /\ IF svc.ok
          THEN /\ set_status_for_state(r, "Idle")
               /\ dpc' = [dpc EXCEPT ![r] = "done"]
          ELSE /\ UNCHANGED <<status, emitted>>
               /\ dpc' = [dpc EXCEPT ![r] = "spawned"]
    /\ UNCHANGED <<directFrame, inserted, acks, hotkey_recording, calls, ret>>

\* the spawned handle_stage_error on AppPipelineDelegate::new(app)
DirectEmitError(r) ==
    /\ dpc[r] = "spawned"
    /\ emit_error(r, None, "transcription")
    /\ dpc' = [dpc EXCEPT ![r] = "set_error"]
    /\ UNCHANGED directFrame

DirectSetError(r) ==
    /\ dpc[r] = "set_error"
    /\ set_status(r, None, "Error")
    /\ dpc' = [dpc EXCEPT ![r] = "done"]
    /\ UNCHANGED directFrame

\* -------------------------------------------------------------------- Spec

CaptureResults == {Ok(Wav), Err("capture failed")}
TranscribeResults == {Ok(x) : x \in Texts} \cup {Err("provider failed")}
InsertResults == {Ok(Unit), Err("insert failed")}

TaskStep(t) ==
    \/ AcquireLock(t)
    \/ BeginFetch(t)
    \/ BeginStore(t)
    \/ ReleaseLock(t)
    \/ StopCheckRecording(t)
    \/ \E svc \in CaptureResults : StartRecording(t, svc)
    \/ AckStarted(t)
    \/ SetListening(t)
    \/ \E svc \in CaptureResults : StopRecording(t, svc)
    \/ AckStopped(t)
    \/ SetTranscribing(t)
    \/ Transcribe(t)
    \/ \E svc \in TranscribeResults : TranscribeReturn(t, svc)
    \/ \E svc \in InsertResults : InsertText(t, svc)
    \/ EmitTranscript(t)
    \/ SetIdle(t)
    \/ EmitError(t)
    \/ SetError(t)

\* the hotkey trigger tasks alone
Next ==
    \/ \E t \in Tasks, k \in {"started", "stopped"} : Trigger(t, k)
    \/ \E t \in Tasks : TaskStep(t)

Spec == Init /\ [][Next]_vars

\* ---------------------------------------------------------------- FairSpec

DirectStep(r) ==
    \/ \E svc \in TranscribeResults : DirectReturn(r, svc)
    \/ DirectEmitError(r)
    \/ DirectSetError(r)

\* hotkey trigger tasks together with direct transcribe_audio requests
FairNext ==
    \/ \E t \in 1..MaxFairTriggers, k \in {"started", "stopped"} : Trigger(t, k)
    \/ \E t \in Tasks : TaskStep(t)
    \/ \E r \in Reqs : DirectBegin(r)
    \/ \E r \in Reqs : DirectStep(r)

\* the runtime polls every spawned task; the awaited orchestrator call returns; the
\* tokio mutex hands the lock to a waiter once it is free
Fairness ==
    /\ WF_vars(\E t \in Tasks : TaskStep(t))
    /\ \A r \in Reqs : WF_vars(DirectStep(r))

FairSpec == Init /\ [][FairNext]_vars /\ Fairness

\* ------------------------------------------------------------ SpecDelegate
\* One thread calls begin_session and the methods of delegates bound to the ids it
\* got (AppPipelineDelegate::for_session) or to no session (AppPipelineDelegate::new).

HarnessStatuses == {"Transcribing", "Error"}
HarnessText == "hello"
Delegates == {None} \cup {issued[i] : i \in 1..Len(issued)}

harnessFrame == <<execution_lock, pc, localVars, dpc, offPipeline>>
CanCall == Len(calls[Harness]) < MaxCalls

HarnessBeginSession ==
    /\ Len(issued) < MaxSessions
    /\ begin_session
    /\ issued' = Append(issued, begin_session_fetch)
    /\ UNCHANGED <<harnessFrame, effectVars>>

HarnessSetStatus(d, st) ==
    /\ CanCall
    /\ set_status(Harness, d, st)
    /\ UNCHANGED <<harnessFrame, next_session_id, active_session_id, issued>>

HarnessEmitTranscript(d) ==
    /\ CanCall
    /\ emit_transcript(Harness, d, HarnessText)
    /\ UNCHANGED <<harnessFrame, next_session_id, active_session_id, issued>>

HarnessEmitError(d) ==
    /\ CanCall
    /\ emit_error(Harness, d, "transcription")
    /\ UNCHANGED <<harnessFrame, next_session_id, active_session_id, issued>>

HarnessInsertText(d, svc) ==
    /\ CanCall
    /\ insert_text(Harness, d, HarnessText, svc)
    /\ UNCHANGED <<harnessFrame, next_session_id, active_session_id, issued>>

HarnessOnRecordingStarted(d, success) ==
    /\ CanCall
    /\ on_recording_started(Harness, d, success)
    /\ UNCHANGED <<harnessFrame, next_session_id, active_session_id, issued>>

HarnessOnRecordingStopped(d, success) ==
    /\ CanCall
    /\ on_recording_stopped(Harness, d, success)
    /\ UNCHANGED <<harnessFrame, next_session_id, active_session_id, issued>>

DelegateNext ==
    \/ HarnessBeginSession
    \/ \E d \in Delegates, st \in HarnessStatuses : HarnessSetStatus(d, st)
    \/ \E d \in Delegates : HarnessEmitTranscript(d)
    \/ \E d \in Delegates : HarnessEmitError(d)
    \/ \E d \in Delegates, svc \in InsertResults : HarnessInsertText(d, svc)
    \/ \E d \in Delegates, success \in BOOLEAN : HarnessOnRecordingStarted(d, success)
    \/ \E d \in Delegates, success \in BOOLEAN : HarnessOnRecordingStopped(d, success)

SpecDelegate == Init /\ [][DelegateNext]_vars

\* -------------------------------------------------------------- SpecBridge
\* One bridged call: invoke_webview_bridge binds the listener for a fresh request id and
\* awaits wait_for_webview_bridge_callback, which handles one connection per iteration.

RequestIds == {"uuid-1", "uuid-2"}

\* texts a callback can carry as its payload: nothing, text that is no
\* WebviewBridgeCallback JSON, or the JSON of a callback with a request id
Absent == [kind |-> "absent", request_id |-> ""]
PayloadTexts ==
    {[kind |-> "empty", request_id |-> ""], [kind |-> "garbage", request_id |-> ""]}
        \cup {[kind |-> "json", request_id |-> id] : id \in RequestIds}

\* what is wrong with the bytes of a connection up to the end of its headers, and with
\* the bytes after them
HeaderFaults ==
    {"read_error", "no_terminator", "oversize_headers", "headers_not_utf8", "no_method",
     "no_target"}
BodyFaults == {"oversize_body", "body_not_utf8"}

\* what a connection sends: fault is what is wrong with its bytes, content_length tells
\* whether a Content-Length header declares the length of the bytes after the headers
Connections ==
    [fault : {"none"}, content_length : {"declared"}, method : {"GET", "POST", "PUT"},
     url_ok : BOOLEAN, path : {BRIDGE_CALLBACK_PATH, "/favicon.ico"},
     query : PayloadTexts \cup {Absent}, body : PayloadTexts]
        \cup [fault : {"none"}, content_length : {"absent"}, method : {"GET", "POST", "PUT"},
              url_ok : {TRUE}, path : {BRIDGE_CALLBACK_PATH},
              query : PayloadTexts \cup {Absent},
              body : {[kind |-> "json", request_id |-> id] : id \in RequestIds}]
        \cup [fault : HeaderFaults, content_length : {"declared"}, method : {"GET", "PUT"},
              url_ok : {TRUE}, path : {BRIDGE_CALLBACK_PATH}, query : {Absent},
              body : {[kind |-> "json", request_id |-> id] : id \in RequestIds}]
        \cup [fault : BodyFaults, content_length : {"declared", "absent"},
              method : {"GET", "POST", "PUT"}, url_ok : BOOLEAN,
              path : {BRIDGE_CALLBACK_PATH, "/favicon.ico"},
              query : {Absent} \cup {[kind |-> "json", request_id |-> id] : id \in RequestIds},
              body : {[kind |-> "garbage", request_id |-> ""]}]

\* variant: headers that are not UTF-8 are decoded lossily
read_http_request_lossy(conn) ==
    CASE conn.fault = "read_error" -> [kind |-> "Network", body |-> conn.body]
      [] conn.fault \in HeaderFaults \ {"headers_not_utf8"} ->
            [kind |-> "InvalidResponse", body |-> conn.body]
      [] conn.fault \in BodyFaults /\ conn.content_length = "declared" ->
            [kind |-> "InvalidResponse", body |-> conn.body]
      [] conn.content_length = "absent" ->
            [kind |-> "Ok", body |-> [kind |-> "empty", request_id |-> ""]]
      [] OTHER -> [kind |-> "Ok", body |-> conn.body]

\* read_http_request: the body of the connection (method and target are conn.method and
\* the URL of conn), or the error; without a Content-Length the bytes after the headers
\* are neither read nor decoded, and the body is empty
read_http_request(conn) ==
    CASE conn.fault = "read_error" -> [kind |-> "Network", body |-> conn.body]
      [] conn.fault \in HeaderFaults ->
            [kind |-> "InvalidResponse", body |-> conn.body]
      [] conn.fault \in BodyFaults /\ conn.content_length = "declared" ->
            [kind |-> "InvalidResponse", body |-> conn.body]
      [] conn.content_length = "absent" ->
            [kind |-> "Ok", body |-> [kind |-> "empty", request_id |-> ""]]
      [] OTHER -> [kind |-> "Ok", body |-> conn.body]

\* the `payload` query parameter when present, else the trimmed body
payload_json(conn) ==
    IF conn.query # Absent THEN conn.query ELSE read_http_request(conn).body

Continue(response) == [next |-> "continue", response |-> response, kind |-> "pending"]
Fail(err) == [next |-> "return", response |-> "none", kind |-> err]
Resolve == [next |-> "return", response |-> "204 No Content", kind |-> "Ok"]

\* mutant: the request id of the payload is not compared
loop_iteration_any_id(conn, expected) ==
    IF read_http_request(conn).kind # "Ok" THEN Fail(read_http_request(conn).kind)
    ELSE IF conn.method \notin {"POST", "GET"} THEN Continue("405 Method Not Allowed")
    ELSE IF ~conn.url_ok THEN Fail("InvalidResponse")
    ELSE IF conn.path # BRIDGE_CALLBACK_PATH THEN Continue("404 Not Found")
    ELSE IF payload_json(conn).kind = "empty" THEN Continue("400 Bad Request")
    ELSE IF payload_json(conn).kind # "json" THEN Fail("InvalidResponse")
    ELSE Resolve

\* variant: a request for another path fails the call
loop_iteration_path_fails(conn, expected) ==
    IF read_http_request(conn).kind # "Ok" THEN Fail(read_http_request(conn).kind)
    ELSE IF conn.method \notin {"POST", "GET"} THEN Continue("405 Method Not Allowed")
    ELSE IF ~conn.url_ok THEN Fail("InvalidResponse")
    ELSE IF conn.path # BRIDGE_CALLBACK_PATH THEN Fail("InvalidResponse")
    ELSE IF payload_json(conn).kind = "empty" THEN Continue("400 Bad Request")
    ELSE IF payload_json(conn).kind # "json" THEN Fail("InvalidResponse")
    ELSE IF payload_json(conn).request_id # expected THEN Continue("202 Accepted")
    ELSE Resolve

\* one iteration of the loop of wait_for_webview_bridge_callback on an accepted connection
loop_iteration(conn, expected) ==
    IF read_http_request(conn).kind # "Ok" THEN Fail(read_http_request(conn).kind)
    ELSE IF conn.method \notin {"POST", "GET"} THEN Continue("405 Method Not Allowed")
    ELSE IF ~conn.url_ok THEN Fail("InvalidResponse")
    ELSE IF conn.path # BRIDGE_CALLBACK_PATH THEN Continue("404 Not Found")
    ELSE IF payload_json(conn).kind = "empty" THEN Continue("400 Bad Request")
    ELSE IF payload_json(conn).kind # "json" THEN Fail("InvalidResponse")
    ELSE IF payload_json(conn).request_id # expected THEN Continue("202 Accepted")
    ELSE Resolve

\* the request id a connection carries in its payload, "" when it carries none
CarriedId(conn) ==
    IF read_http_request(conn).kind = "Ok" /\ conn.url_ok /\ payload_json(conn).kind = "json"
        THEN payload_json(conn).request_id
        ELSE ""

\* values CHATGPT_TRANSCRIPTION_TIMEOUT_SECS can hold, and the instants the wait is looked at
TimeoutEnv == {0, 5, 240}
Instants == {0, 5, 179, 180, 240}

Max(a, b) == IF a >= b THEN a ELSE b

\* ChatGptTranscriptionConfig::from_env: the configured timeout, at least one second
from_env(timeout_secs) ==
    /\ bpc = "idle"
    /\ request_timeout_secs' = Max(timeout_secs, 1)
    /\ request_timeout_secs' # request_timeout_secs
    /\ UNCHANGED <<bpc, expected_request_id, handled, bridge_result, waited, listener_bound,
                   offBridge>>

\* variant: the floor is left out of the duration
bridge_timeout_secs_no_floor == request_timeout_secs

\* the Duration handed to timeout(): request_timeout_secs.max(BRIDGE_REQUEST_TIMEOUT_SECS)
bridge_timeout_secs == Max(request_timeout_secs, BRIDGE_REQUEST_TIMEOUT_SECS)

\* invoke_webview_bridge up to its await: the listener is bound and expects the request id
BridgeStart(id) ==
    /\ bpc = "idle"
    /\ expected_request_id' = id
    /\ bpc' = "waiting"
    /\ listener_bound' = TRUE
    /\ waited' = 0
    /\ UNCHANGED <<handled, bridge_result, request_timeout_secs, offBridge>>

\* listener.accept() and the rest of one loop iteration; returning drops the listener
BridgeAccept(conn) ==
    /\ bpc = "waiting"
    /\ Len(handled) < MaxConnections
    /\ LET it == loop_iteration(conn, expected_request_id) IN
        /\ handled' = Append(handled, [response |-> it.response, request_id |-> CarriedId(conn)])
        /\ IF it.next = "continue"
              THEN UNCHANGED <<bpc, bridge_result, listener_bound>>
              ELSE /\ bpc' = IF it.kind = "Ok" THEN "resolved" ELSE "failed"
                   /\ listener_bound' = FALSE
                   /\ bridge_result' =
                        [kind |-> it.kind,
                         request_id |-> IF it.kind = "Ok" THEN payload_json(conn).request_id ELSE ""]
    /\ UNCHANGED <<expected_request_id, request_timeout_secs, waited, offBridge>>

\* time passes while the call awaits; the timer of timeout() fires when its duration is up
BridgeTick(now) ==
    /\ bpc = "waiting"
    /\ now > waited
    /\ now <= bridge_timeout_secs
    /\ waited' = now
    /\ UNCHANGED <<bpc, expected_request_id, handled, bridge_result, request_timeout_secs,
                   listener_bound, offBridge>>

\* timeout(..) elapsed: the pending wait is dropped, and its listener with it, and the
\* Elapsed error is mapped to Network
BridgeTimeout ==
    /\ bpc = "waiting"
    /\ waited >= bridge_timeout_secs
    /\ bpc' = "timed_out"
    /\ listener_bound' = FALSE
    /\ bridge_result' = [kind |-> "Network", request_id |-> ""]
    /\ UNCHANGED <<expected_request_id, handled, request_timeout_secs, waited, offBridge>>

BridgeNext ==
    \/ \E timeout_secs \in TimeoutEnv : from_env(timeout_secs)
    \/ \E id \in RequestIds : BridgeStart(id)
    \/ \E conn \in Connections : BridgeAccept(conn)
    \/ \E now \in Instants : BridgeTick(now)
    \/ BridgeTimeout

SpecBridge == Init /\ [][BridgeNext]_vars

\* -------------------------------------------------------------- SpecErrors
\* One failed response handed to the error mapping of the variant that received it.

offErrors == <<pipelineVars, bridgeVars, providerVars, historyVars, statsVars>>

\* transcribe_via_webview: the callback is not ok
MapBridgeHttpError(http_status, body, bridge_error) ==
    /\ mapped.via = "none"
    /\ mapped' = [via |-> "bridge", status |-> http_status, body |-> body,
                  bridge_error |-> bridge_error,
                  error |-> map_bridge_http_error(http_status, body, bridge_error)]
    /\ UNCHANGED offErrors

\* transcribe: the response status is no success
MapHttpError(code, body) ==
    /\ mapped.via = "none"
    /\ ~is_success(code)
    /\ mapped' = [via |-> "http", status |-> SomeStatus(code), body |-> SomeBody(body),
                  bridge_error |-> NoText, error |-> map_http_error(code, body)]
    /\ UNCHANGED offErrors

ErrorsNext ==
    \/ \E http_status \in {NoStatus} \cup {SomeStatus(c) : c \in StatusCodes},
          body \in {NoBody} \cup {SomeBody(b) : b \in Bodies},
          bridge_error \in BridgeErrors : MapBridgeHttpError(http_status, body, bridge_error)
    \/ \E code \in StatusCodes, body \in Bodies : MapHttpError(code, body)

SpecErrors == Init /\ [][ErrorsNext]_vars

\* ------------------------------------------------------------ SpecProvider
\* Callers of ChatGptTranscriptionProvider: transcribe_via_webview holds request_lock
\* from its first line to its return; transcribe takes no lock. Both begin with
\* auth_context.

offProvider == <<pipelineVars, bridgeVars, errorVars, historyVars, statsVars>>
authVars == <<auth_method, stored>>
callVars == <<credentials, now_read, refreshed, auth>>
deltaVars == <<on_delta, deltas, returned>>
bridgeLocals == <<request, invoked>>

\* inputs: the clock, the expiry of a login, the answers of the refresh exchange
Nows == {1000}
LoginExpiries == {1059, 1060, 1061}
RefreshResults ==
    {RefreshErr("transport"), RefreshErr("rejected")}
        \cup {RefreshOk("at-1", NoString, 5000, SomeString("acct-1")),
              RefreshOk("at-1", SomeString("rt-1"), 5000, NoString)}
StoreResults == {"ok", "err"}

\* AuthStore::save_chatgpt_login, by the login of a user who is not logged in
save_chatgpt_login(expires_at) ==
    /\ auth_method = "none"
    /\ auth_method' = "chatgpt_oauth"
    /\ stored' = Credentials("at-0", "rt-0", expires_at, "acct-0")
    /\ UNCHANGED <<request_lock, vpc, via, callVars, bridgeLocals, listeners, outcome,
                   deltaVars, offProvider>>

\* AuthStore: the user selects another login method; stored credentials stay
set_auth_method(method) ==
    /\ auth_method # method
    /\ auth_method' = method
    /\ UNCHANGED <<stored, request_lock, vpc, via, callVars, bridgeLocals, listeners, outcome,
                   deltaVars, offProvider>>

\* AuthStore::update_chatgpt_tokens
update_chatgpt_tokens(access_token, refresh_token, expires_at, account_id) ==
    stored' = Credentials(access_token, refresh_token, expires_at, account_id)

\* a call of transcribe_via_webview or of transcribe begins (calls are numbered in the
\* order they begin)
CallProvider(c, path, callback) ==
    /\ vpc[c] = "idle"
    /\ \A d \in Callers : d < c => vpc[d] # "idle"
    /\ via' = [via EXCEPT ![c] = path]
    /\ on_delta' = [on_delta EXCEPT ![c] = callback]
    /\ vpc' = [vpc EXCEPT ![c] = IF path = "webview" THEN "lock" ELSE "auth"]
    /\ UNCHANGED <<request_lock, authVars, callVars, bridgeLocals, listeners, outcome,
                   deltas, returned, offProvider>>

\* variant: the lock is taken without waiting for it to be free
request_lock_acquire_unchecked == TRUE

\* self.request_lock.lock().await is granted
request_lock_acquire == request_lock = 0

RequestLock(c) ==
    /\ vpc[c] = "lock"
    /\ request_lock_acquire
    /\ request_lock' = c
    /\ vpc' = [vpc EXCEPT ![c] = "auth"]
    /\ UNCHANGED <<via, authVars, callVars, bridgeLocals, listeners, outcome, deltaVars, offProvider>>

\* variant: the request lock stays held after the call returned
Return_keeps_lock(c, res) ==
    /\ vpc' = [vpc EXCEPT ![c] = "done"]
    /\ outcome' = [outcome EXCEPT ![c] = res]
    /\ request_lock' = request_lock
    /\ listeners' = listeners \ {c}
    /\ request' = [request EXCEPT ![c] = NoRequest]
    /\ invoked' = [invoked EXCEPT ![c] = NotInvoked]

\* variant: the listener of the call stays bound after the call returned
Return_keeps_listener(c, res) ==
    /\ vpc' = [vpc EXCEPT ![c] = "done"]
    /\ outcome' = [outcome EXCEPT ![c] = res]
    /\ request_lock' = IF via[c] = "webview" THEN 0 ELSE request_lock
    /\ listeners' = listeners
    /\ request' = [request EXCEPT ![c] = NoRequest]
    /\ invoked' = [invoked EXCEPT ![c] = NotInvoked]

\* the call returns res: _request_guard, the locals of the call and the listener, if
\* any, are dropped
Return(c, res) ==
    /\ vpc' = [vpc EXCEPT ![c] = "done"]
    /\ outcome' = [outcome EXCEPT ![c] = res]
    /\ request_lock' = IF via[c] = "webview" THEN 0 ELSE request_lock
    /\ listeners' = listeners \ {c}
    /\ request' = [request EXCEPT ![c] = NoRequest]
    /\ invoked' = [invoked EXCEPT ![c] = NotInvoked]

\* the call goes on after auth_context returned Ok
Proceed(c) ==
    /\ vpc' = [vpc EXCEPT ![c] = IF via[c] = "webview" THEN "window" ELSE "send"]
    /\ UNCHANGED <<request_lock, bridgeLocals, listeners, outcome>>

\* variant: a token expiring in exactly 60 seconds is not refreshed
near_expiry_strict(creds, now) == creds.expires_at < now + 60

\* credentials.expires_at <= now_epoch_seconds().saturating_add(60)
near_expiry(creds, now) == creds.expires_at <= now + 60

\* variant: the configured login method is not looked at
AuthContext_any_method(c, now, io) ==
    /\ vpc[c] = "auth"
    /\ IF io = "err"
          THEN /\ auth' = [auth EXCEPT ![c] = AuthErr("Provider")]
               /\ Return(c, "Provider")
               /\ UNCHANGED <<credentials, now_read>>
       ELSE IF ~stored.some
          THEN /\ auth' = [auth EXCEPT ![c] = AuthErr("Authentication")]
               /\ Return(c, "Authentication")
               /\ UNCHANGED <<credentials, now_read>>
       ELSE /\ credentials' = [credentials EXCEPT ![c] = stored]
            /\ now_read' = [now_read EXCEPT ![c] = now]
            /\ IF near_expiry(stored, now)
                  THEN /\ vpc' = [vpc EXCEPT ![c] = "refresh"]
                       /\ UNCHANGED <<auth, request_lock, bridgeLocals, listeners, outcome>>
                  ELSE /\ auth' = [auth EXCEPT ![c] =
                                      AuthOk(stored.access_token, stored.account_id)]
                       /\ Proceed(c)
    /\ UNCHANGED <<via, authVars, refreshed, deltaVars, offProvider>>

\* auth_context up to the refresh exchange
AuthContext(c, now, io) ==
    /\ vpc[c] = "auth"
    /\ IF io = "err"
          THEN /\ auth' = [auth EXCEPT ![c] = AuthErr("Provider")]
               /\ Return(c, "Provider")
               /\ UNCHANGED <<credentials, now_read>>
       ELSE IF auth_method # "chatgpt_oauth" \/ ~stored.some
          THEN /\ auth' = [auth EXCEPT ![c] = AuthErr("Authentication")]
               /\ Return(c, "Authentication")
               /\ UNCHANGED <<credentials, now_read>>
       ELSE /\ credentials' = [credentials EXCEPT ![c] = stored]
            /\ now_read' = [now_read EXCEPT ![c] = now]
            /\ IF near_expiry(stored, now)
                  THEN /\ vpc' = [vpc EXCEPT ![c] = "refresh"]
                       /\ UNCHANGED <<auth, request_lock, bridgeLocals, listeners, outcome>>
                  ELSE /\ auth' = [auth EXCEPT ![c] =
                                      AuthOk(stored.access_token, stored.account_id)]
                       /\ Proceed(c)
    /\ UNCHANGED <<via, authVars, refreshed, deltaVars, offProvider>>

\* variant: a transport failure of the exchange is reported as Network
refresh_error_kind_by_cause(cause) ==
    IF cause = "transport" THEN "Network" ELSE "Authentication"

\* .map_err(TranscriptionError::Authentication)
refresh_error_kind(cause) == "Authentication"

\* variant: a refresh token the response left out is stored as empty
unwrap_or_empty(supplied, previous) == IF supplied.some THEN supplied.v ELSE ""

\* Option::unwrap_or
unwrap_or(supplied, previous) == IF supplied.some THEN supplied.v ELSE previous

\* auth_context from the answer of oauth::refresh_access_token on
RefreshReturn(c, resp, io) ==
    /\ vpc[c] = "refresh"
    /\ refreshed' = [refreshed EXCEPT ![c] = resp]
    /\ IF resp.state # "ok"
          THEN /\ auth' = [auth EXCEPT ![c] = AuthErr(refresh_error_kind(resp.state))]
               /\ Return(c, refresh_error_kind(resp.state))
               /\ UNCHANGED authVars
       ELSE IF io = "err"
          THEN /\ auth' = [auth EXCEPT ![c] = AuthErr("Provider")]
               /\ Return(c, "Provider")
               /\ UNCHANGED authVars
       ELSE LET refreshed_refresh_token ==
                    unwrap_or(resp.refresh_token, credentials[c].refresh_token)
                refreshed_account_id ==
                    unwrap_or(resp.account_id, credentials[c].account_id)
            IN  /\ update_chatgpt_tokens(resp.access_token, refreshed_refresh_token,
                                          resp.expires_at, refreshed_account_id)
                /\ auth' = [auth EXCEPT ![c] = AuthOk(resp.access_token, refreshed_account_id)]
                /\ Proceed(c)
                /\ UNCHANGED auth_method
    /\ UNCHANGED <<via, credentials, now_read, deltaVars, offProvider>>

\* ensure_auth_window, and warmup_auth_window up to its sleep
EnsureWindow(c, ok) ==
    /\ vpc[c] = "window"
    /\ IF ok
          THEN /\ vpc' = [vpc EXCEPT ![c] = "warmup"]
               /\ UNCHANGED <<request_lock, bridgeLocals, listeners, outcome>>
          ELSE Return(c, "Provider")
    /\ UNCHANGED <<via, authVars, callVars, deltaVars, offProvider>>

\* the sleep of warmup_auth_window is over; Uuid::new_v4() answers id and the payload
\* is built around it, its callback_url still empty
Warmup(c, id) ==
    /\ vpc[c] = "warmup"
    /\ vpc' = [vpc EXCEPT ![c] = "bind"]
    /\ request' = [request EXCEPT ![c] = WebviewBridgeRequest(id, NoUrl)]
    /\ UNCHANGED <<request_lock, via, authVars, callVars, invoked, listeners, outcome,
                   deltaVars, offProvider>>

\* variant: the callback URL is built before the port of the listener is known
callback_url_unbound(callback_port, request_id) == CallbackUrl(0, request_id)

\* format!("http://127.0.0.1:{callback_port}{BRIDGE_CALLBACK_PATH}?requestId={}", ..)
callback_url(callback_port, request_id) == CallbackUrl(callback_port, request_id)

\* invoke_webview_bridge: TcpListener::bind answers a listener on port, or fails; the
\* callback URL is put into the request and the id the listener will expect is taken
Bind(c, ok, port) ==
    /\ vpc[c] = "bind"
    /\ IF ok
          THEN /\ listeners' = listeners \cup {c}
               /\ request' = [request EXCEPT ![c] =
                        WebviewBridgeRequest(request[c].request_id,
                                             callback_url(port, request[c].request_id))]
               /\ invoked' = [invoked EXCEPT ![c] =
                        [callback_port |-> port,
                         expected_request_id |-> request[c].request_id,
                         script |-> NoScript]]
               /\ vpc' = [vpc EXCEPT ![c] = "eval"]
               /\ UNCHANGED <<request_lock, outcome>>
          ELSE Return(c, "Network")
    /\ UNCHANGED <<via, authVars, callVars, deltaVars, offProvider>>

\* build_webview_bridge_script: the script whose payload is the serialised request
build_webview_bridge_script(req) == [payload |-> req]

\* invoke_webview_bridge: build_webview_bridge_script and window.eval
Eval(c, ok) ==
    /\ vpc[c] = "eval"
    /\ IF ok
          THEN /\ invoked' = [invoked EXCEPT ![c].script =
                        build_webview_bridge_script(request[c])]
               /\ vpc' = [vpc EXCEPT ![c] = "wait"]
               /\ UNCHANGED <<request_lock, request, listeners, outcome>>
          ELSE Return(c, "Provider")
    /\ UNCHANGED <<via, authVars, callVars, deltaVars, offProvider>>

\* the text member a ChatGptTranscriptionResponse can carry
PayloadTextValues == {<<" ", "h", "i", " ", "\n", "y", "o", "\t">>, <<"o", "k">>}

\* how the wait for the callback ends: timed out, failed on a connection, or resolved by
\* the callback of the call
WaitResults ==
    [wait : {"timeout", "read_error", "malformed"}, ok : {FALSE}, status : {NoStatus},
     json : {FALSE}, bridge_error : {NoText}]
        \cup [wait : {"callback"}, ok : BOOLEAN,
              status : {NoStatus, SomeStatus(200), SomeStatus(401)}, json : BOOLEAN,
              bridge_error : {NoText, SomeText(<<"d", "n", "s">>)}]

\* transcribe_via_webview from the return of invoke_webview_bridge on
wait_result(res) ==
    IF res.wait \in {"timeout", "read_error"} THEN "Network"
    ELSE IF res.wait = "malformed" THEN "InvalidResponse"
    ELSE IF ~res.ok THEN map_bridge_http_error(res.status, NoBody, res.bridge_error).kind
    ELSE IF res.json THEN "Ok"
    ELSE "InvalidResponse"

\* variant: the delta callback is given the text as the response carried it
Deliver_raw(c, payload_text) ==
    /\ deltas' = [deltas EXCEPT ![c] = IF on_delta[c] THEN Append(@, payload_text) ELSE @]
    /\ returned' = [returned EXCEPT ![c] = SomeText(normalize_transcript_text(payload_text))]

\* the end of a call that succeeded: the text is normalized, handed to on_delta when
\* there is one, and returned
Deliver(c, payload_text) ==
    /\ deltas' = [deltas EXCEPT ![c] =
            IF on_delta[c] THEN Append(@, normalize_transcript_text(payload_text)) ELSE @]
    /\ returned' = [returned EXCEPT ![c] = SomeText(normalize_transcript_text(payload_text))]

WaitReturn(c, res, payload_text) ==
    /\ vpc[c] = "wait"
    /\ Return(c, wait_result(res))
    /\ IF wait_result(res) = "Ok"
          THEN Deliver(c, payload_text)
          ELSE UNCHANGED <<deltas, returned>>
    /\ UNCHANGED <<via, authVars, callVars, on_delta, offProvider>>

\* how the request of transcribe ends: a transport error, or a response
SendResults ==
    [sent : {"timeout", "other"}, code : {0}, json : {FALSE}]
        \cup [sent : {"response"}, code : {200, 401, 500, 600}, json : BOOLEAN]

\* transcribe from the answer of send() on
send_result(res) ==
    IF res.sent = "timeout" THEN "Network"
    ELSE IF res.sent = "other" THEN "Provider"
    ELSE IF ~is_success(res.code) THEN map_http_error(res.code, EmptyBody).kind
    ELSE IF res.json THEN "Ok"
    ELSE "InvalidResponse"

Send(c, res, payload_text) ==
    /\ vpc[c] = "send"
    /\ Return(c, send_result(res))
    /\ IF send_result(res) = "Ok"
          THEN Deliver(c, payload_text)
          ELSE UNCHANGED <<deltas, returned>>
    /\ UNCHANGED <<via, authVars, callVars, on_delta, offProvider>>

ProviderNext ==
    \/ \E expires_at \in LoginExpiries : save_chatgpt_login(expires_at)
    \/ \E method \in {"api_key", "chatgpt_oauth"} : set_auth_method(method)
    \/ \E c \in Callers, path \in {"webview", "http"}, callback \in BOOLEAN :
            CallProvider(c, path, callback)
    \/ \E c \in Callers : RequestLock(c)
    \/ \E c \in Callers, now \in Nows, io \in StoreResults : AuthContext(c, now, io)
    \/ \E c \in Callers, resp \in RefreshResults, io \in StoreResults : RefreshReturn(c, resp, io)
    \/ \E c \in Callers, ok \in BOOLEAN : EnsureWindow(c, ok)
    \/ \E c \in Callers, id \in RequestIds : Warmup(c, id)
    \/ \E c \in Callers, ok \in BOOLEAN, port \in Ports : Bind(c, ok, port)
    \/ \E c \in Callers, ok \in BOOLEAN : Eval(c, ok)
    \/ \E c \in Callers, res \in WaitResults, payload_text \in PayloadTextValues :
            WaitReturn(c, res, payload_text)
    \/ \E c \in Callers, res \in SendResults, payload_text \in PayloadTextValues :
            Send(c, res, payload_text)

SpecProvider == Init /\ [][ProviderNext]_vars

\* the next step of the call of c: the lock is granted, or the await the call is at ends
\* (the wait for the callback ends at the latest when its timeout elapses)
ProviderStep(c) ==
    \/ RequestLock(c)
    \/ \E now \in Nows, io \in StoreResults : AuthContext(c, now, io)
    \/ \E resp \in RefreshResults, io \in StoreResults : RefreshReturn(c, resp, io)
    \/ \E ok \in BOOLEAN : EnsureWindow(c, ok)
    \/ \E id \in RequestIds : Warmup(c, id)
    \/ \E ok \in BOOLEAN, port \in Ports : Bind(c, ok, port)
    \/ \E ok \in BOOLEAN : Eval(c, ok)
    \/ \E res \in WaitResults, payload_text \in PayloadTextValues :
            WaitReturn(c, res, payload_text)
    \/ \E res \in SendResults, payload_text \in PayloadTextValues : Send(c, res, payload_text)

\* every call that can take a step eventually takes one
FairSpecProvider == SpecProvider /\ \A c \in Callers : WF_vars(ProviderStep(c))

\* ------------------------------------------------------------- SpecHistory
\* HistoryStore: every operation holds io_lock from its read to its write.

offHistory == <<pipelineVars, bridgeVars, errorVars, providerVars, statsVars>>

\* variant: only a field of no characters is refused
validate_entry_untrimmed(entry) ==
    IF entry.id = <<>> THEN "History entry id cannot be empty"
    ELSE IF entry.text = <<>> THEN "History entry text cannot be empty"
    ELSE IF entry.timestamp = <<>> THEN "History entry timestamp cannot be empty"
    ELSE IF entry.provider = <<>> THEN "History entry provider cannot be empty"
    ELSE "Ok"

\* validate_entry: Ok, or the error of the first blank field
validate_entry(entry) ==
    IF trim(entry.id) = <<>> THEN "History entry id cannot be empty"
    ELSE IF trim(entry.text) = <<>> THEN "History entry text cannot be empty"
    ELSE IF trim(entry.timestamp) = <<>> THEN "History entry timestamp cannot be empty"
    ELSE IF trim(entry.provider) = <<>> THEN "History entry provider cannot be empty"
    ELSE "Ok"

\* entries.windows(2).all(|window| window[0].timestamp >= window[1].timestamp)
newest_first(entries) ==
    \A i \in 1..(Len(entries) - 1) :
        string_ge(entries[i].timestamp, entries[i + 1].timestamp)

\* the place of an entry in a list sorted by right.timestamp.cmp(&left.timestamp): behind
\* every entry that does not compare older
RECURSIVE insert_sorted(_, _)
insert_sorted(sorted, entry) ==
    IF sorted = <<>> THEN <<entry>>
    ELSE IF string_lt(Head(sorted).timestamp, entry.timestamp) THEN <<entry>> \o sorted
    ELSE <<Head(sorted)>> \o insert_sorted(Tail(sorted), entry)

RECURSIVE sort_by_sorted(_, _)
sort_by_sorted(done, rest) ==
    IF rest = <<>> THEN done ELSE sort_by_sorted(insert_sorted(done, Head(rest)), Tail(rest))

\* variant: the entries are returned in the order of the file
sort_by_skipped(entries) == entries

\* entries.sort_by(|left, right| right.timestamp.cmp(&left.timestamp)), a stable sort
sort_by(entries) == sort_by_sorted(<<>>, entries)

\* variant: the file is rewritten and no backup of it is kept
recover_without_backup(file, baks) ==
    [entries |-> <<>>, file |-> JsonFile(<<>>), backups |-> baks]

\* recover_malformed_history_file: the file is renamed to a backup and written anew as []
recover_malformed_history_file(file, baks) ==
    [entries |-> <<>>, file |-> JsonFile(<<>>), backups |-> baks + 1]

\* read_entries: the entries it returns and the file and backups it leaves
read_entries(file, baks) ==
    IF file.kind \in {"missing", "blank"}
        THEN [entries |-> <<>>, file |-> file, backups |-> baks]
    ELSE IF file.kind = "malformed"
              \/ \E i \in 1..Len(file.entries) : validate_entry(file.entries[i]) # "Ok"
        THEN recover_malformed_history_file(file, baks)
    ELSE [entries |-> IF newest_first(file.entries) THEN file.entries
                      ELSE sort_by(file.entries),
          file |-> file, backups |-> baks]

\* entries.partition_point(|existing| existing.timestamp >= entry.timestamp)
partition_point(entries, entry) ==
    Cardinality({i \in 1..Len(entries) :
                    \A j \in 1..i : string_ge(entries[j].timestamp, entry.timestamp)})

\* Vec::insert(insert_at, entry)
insert(entries, insert_at, entry) ==
    SubSeq(entries, 1, insert_at) \o <<entry>> \o SubSeq(entries, insert_at + 1, Len(entries))

Called2(op, id, limit, offset, ok, found, entries, error) ==
    [op |-> op, id |-> id, limit |-> limit, offset |-> offset, ok |-> ok, found |-> found,
     entries |-> entries, error |-> error]

\* add_entry
add_entry(entry) ==
    /\ Len(history_file.entries) < MaxEntries
    /\ IF validate_entry(entry) # "Ok"
          THEN /\ last_call' = Called2("add", entry.id, 0, 0, FALSE, FALSE, <<entry>>,
                                       validate_entry(entry))
               /\ UNCHANGED <<history_file, backups, live_ids>>
          ELSE LET read == read_entries(history_file, backups)
                   insert_at == partition_point(read.entries, entry)
               IN  /\ history_file' = JsonFile(insert(read.entries, insert_at, entry))
                   /\ backups' = read.backups
                   /\ live_ids' = live_ids \cup {entry.id}
                   /\ last_call' = Called2("add", entry.id, 0, 0, TRUE, FALSE, <<entry>>, "")
    /\ UNCHANGED offHistory

Min(a, b) == IF a <= b THEN a ELSE b

\* variant: the page size is the limit
page_size_uncapped(limit) == limit

\* limit.min(MAX_HISTORY_PAGE_SIZE)
page_size(limit) == Min(limit, MAX_HISTORY_PAGE_SIZE)

\* Iterator::skip, Iterator::take
skip(entries, n) == IF n >= Len(entries) THEN <<>> ELSE SubSeq(entries, n + 1, Len(entries))
take(entries, n) == IF n >= Len(entries) THEN entries ELSE SubSeq(entries, 1, n)

\* list_entries
list_entries(limit, offset) ==
    /\ IF limit = 0
          THEN /\ last_call' = Called2("list", <<>>, limit, offset, TRUE, FALSE, <<>>, "")
               /\ UNCHANGED <<history_file, backups>>
          ELSE LET read == read_entries(history_file, backups) IN
               /\ history_file' = read.file
               /\ backups' = read.backups
               /\ last_call' = Called2("list", <<>>, limit, offset, TRUE, FALSE,
                                       take(skip(read.entries, offset), page_size(limit)), "")
    /\ UNCHANGED <<live_ids, offHistory>>

\* entries.into_iter().find(|entry| entry.id == id)
find(entries, id) ==
    LET hits == SelectSeq(entries, LAMBDA entry : entry.id = id)
    IN  IF hits = <<>> THEN <<>> ELSE <<Head(hits)>>

\* get_entry
get_entry(id) ==
    /\ LET read == read_entries(history_file, backups) IN
        /\ history_file' = read.file
        /\ backups' = read.backups
        /\ last_call' = Called2("get", id, 0, 0, TRUE, find(read.entries, id) # <<>>,
                                find(read.entries, id), "")
    /\ UNCHANGED <<live_ids, offHistory>>

\* variant: every call reports a deletion
deleted_always(original_len, len) == TRUE

\* let deleted = entries.len() != original_len
deleted(original_len, len) == len # original_len

\* delete_entry
delete_entry(id) ==
    /\ LET read == read_entries(history_file, backups)
           kept == SelectSeq(read.entries, LAMBDA entry : entry.id # id)
       IN  /\ history_file' = IF deleted(Len(read.entries), Len(kept))
                                 THEN JsonFile(kept) ELSE read.file
           /\ backups' = read.backups
           /\ last_call' = Called2("delete", id, 0, 0, TRUE,
                                   deleted(Len(read.entries), Len(kept)), <<>>, "")
    /\ live_ids' = live_ids \ {id}
    /\ UNCHANGED offHistory

\* clear_history
clear_history ==
    /\ history_file' = JsonFile(<<>>)
    /\ live_ids' = {}
    /\ last_call' = Called2("clear", <<>>, 0, 0, TRUE, FALSE, <<>>, "")
    /\ UNCHANGED <<backups, offHistory>>

\* inputs
Ids == {<<"a">>, <<"b">>}
Timestamps == {<<"1">>, <<"2">>, <<"1", "0">>}
ValidEntries == {HistoryEntry(id, <<"t">>, ts, <<"p">>) : id \in Ids, ts \in Timestamps}
InvalidEntries ==
    {HistoryEntry(<<" ">>, <<"t">>, <<"1">>, <<"p">>),
     HistoryEntry(<<"a">>, <<>>, <<"1">>, <<"p">>),
     HistoryEntry(<<"a">>, <<"t">>, <<" ">>, <<"p">>),
     HistoryEntry(<<"a">>, <<"t">>, <<"1">>, <<>>)}
Limits == {0, 1, 2, MAX_HISTORY_PAGE_SIZE + 1}
Offsets == {0, 1, MAX_HISTORY_PAGE_SIZE, MAX_HISTORY_PAGE_SIZE + 1}

\* files the store can find at file_path: more entries than a page holds, entries that
\* are not newest first, and text that is no JSON
LongFile ==
    JsonFile([i \in 1..(MAX_HISTORY_PAGE_SIZE + 1) |->
                HistoryEntry(<<ToString(i)>>, <<"t">>, <<"1">>, <<"p">>)])
UnsortedFile ==
    JsonFile(<<HistoryEntry(<<"a">>, <<"t">>, <<"1">>, <<"p">>),
               HistoryEntry(<<"b">>, <<"t">>, <<"2">>, <<"p">>)>>)
InvalidEntryFile ==
    JsonFile(<<HistoryEntry(<<"a">>, <<"t">>, <<"2">>, <<"p">>),
               HistoryEntry(<<"b">>, <<" ">>, <<"1">>, <<"p">>)>>)
FoundFiles == {LongFile, UnsortedFile, MalformedFile, InvalidEntryFile, BlankFile}

\* the file is written from outside the store before its first call
fs_write(contents) ==
    /\ last_call.op = "none"
    /\ history_file = JsonFile(<<>>)
    /\ history_file' = contents
    /\ live_ids' = {read_entries(contents, 0).entries[i].id :
                        i \in 1..Len(read_entries(contents, 0).entries)}
    /\ UNCHANGED <<backups, last_call, offHistory>>

HistoryNext ==
    \/ \E contents \in FoundFiles : fs_write(contents)
    \/ \E entry \in ValidEntries \cup InvalidEntries : add_entry(entry)
    \/ \E limit \in Limits, offset \in Offsets : list_entries(limit, offset)
    \/ \E id \in Ids \cup {<<"7">>} : get_entry(id)
    \/ \E id \in Ids \cup {<<"7">>} : delete_entry(id)
    \/ clear_history

SpecHistory == Init /\ [][HistoryNext]_vars

\* --------------------------------------------------------------- SpecStats
\* StatsStore: every operation holds io_lock from its read to its write;
\* record_transcription reads the day before it takes the lock.

offStats == <<pipelineVars, bridgeVars, errorVars, providerVars, historyVars>>

\* normalize_usage_stats
normalize_usage_stats(stats, now) ==
    UsageStats(stats.total_transcriptions, stats.total_words,
               sanitize_seconds(stats.total_recording_seconds),
               [key \in {k \in DOMAIN stats.daily_stats : parses(k)} |->
                    DailyStats(stats.daily_stats[key].transcriptions,
                               stats.daily_stats[key].words,
                               sanitize_seconds(stats.daily_stats[key].recording_seconds))],
               IF parses(stats.last_updated) THEN stats.last_updated ELSE date_key(now))

\* recover_malformed_stats_file: the file is renamed to a backup and written anew
recover_malformed_stats_file(baks, now) ==
    [stats |-> UsageStats_default(now), file |-> JsonStats(UsageStats_default(now)),
     backups |-> baks + 1]

\* read_usage_stats: the stats it returns and the file and backups it leaves
read_usage_stats(file, baks, now) ==
    IF file.kind \in {"missing", "blank"}
        THEN [stats |-> UsageStats_default(now), file |-> file, backups |-> baks]
    ELSE IF file.kind = "malformed" THEN recover_malformed_stats_file(baks, now)
    ELSE [stats |-> normalize_usage_stats(file.stats, now), file |-> file, backups |-> baks]

\* variant: the entry of the day is started anew by every call
or_default_anew(daily_stats, key) == DailyStats_default

\* stats.daily_stats.entry(today).or_default()
or_default(daily_stats, key) ==
    IF key \in DOMAIN daily_stats THEN daily_stats[key] ELSE DailyStats_default

\* calculate_streak_days: the loop, from the day `cursor` backwards
RECURSIVE streak_loop(_, _)
streak_loop(daily_stats, cursor) ==
    IF ~(date_key(cursor) \in DOMAIN daily_stats
            /\ daily_stats[date_key(cursor)].transcriptions # U64(0))
        THEN 0
        ELSE 1 + streak_loop(daily_stats, checked_sub_signed(cursor, 1))

\* variant: the streak is the number of days with activity
calculate_streak_days_any_day(daily_stats, cursor) ==
    Cardinality({key \in DOMAIN daily_stats : daily_stats[key].transcriptions # U64(0)})

\* calculate_streak_days
calculate_streak_days(daily_stats, cursor) == streak_loop(daily_stats, cursor)

\* build_daily_word_history
build_daily_word_history(daily_stats, now, history_days) ==
    [i \in 1..history_days |->
        LET date == checked_sub_signed(now, history_days - i)
        IN  [date |-> date_key(date),
             words |-> IF date_key(date) \in DOMAIN daily_stats
                          THEN daily_stats[date_key(date)].words ELSE U64(0)]]

\* build_usage_report (words_per_minute and average_transcription_length left out)
build_usage_report(stats, now, history_days) ==
    [returned |-> TRUE,
     total_transcriptions |-> stats.total_transcriptions,
     total_words |-> stats.total_words,
     total_recording_seconds |-> stats.total_recording_seconds,
     streak_days |-> calculate_streak_days(stats.daily_stats, now),
     today |-> or_default(stats.daily_stats, date_key(now)),
     daily_word_history |-> build_daily_word_history(stats.daily_stats, now, history_days),
     last_updated |-> stats.last_updated]

\* record_transcription, up to the lock: sanitized_duration and today are computed
\* (clamped: the duration passed was changed by sanitize_seconds)
RecordCall(c, word_count, recording_duration_secs) ==
    /\ spc[c] = "idle"
    /\ \A earlier \in 1..(c - 1) : spc[earlier] = "lock"
    /\ records < MaxRecords
    /\ records' = records + 1
    /\ recording' = [recording EXCEPT ![c] =
            [word_count |-> word_count,
             duration |-> sanitize_seconds(recording_duration_secs),
             clamped |-> sanitize_seconds(recording_duration_secs) # recording_duration_secs,
             today |-> date_key(today)]]
    /\ spc' = [spc EXCEPT ![c] = "lock"]
    /\ UNCHANGED <<stats_file, stats_backups, today, stats_report, stats_last, offStats>>

\* record_transcription, under the lock
RecordCommit(c) ==
    /\ spc[c] = "lock"
    /\ LET read == read_usage_stats(stats_file, stats_backups, today)
           stats == read.stats
           day == recording[c].today
           sanitized_duration == recording[c].duration
           day_stats == or_default(stats.daily_stats, day)
           updated ==
                DailyStats(saturating_add(day_stats.transcriptions, U64(1)),
                           saturating_add(day_stats.words, recording[c].word_count),
                           sanitize_seconds(f64_add(day_stats.recording_seconds,
                                                    sanitized_duration)))
       IN  /\ stats_file' = JsonStats(UsageStats(
                    saturating_add(stats.total_transcriptions, U64(1)),
                    saturating_add(stats.total_words, recording[c].word_count),
                    sanitize_seconds(f64_add(stats.total_recording_seconds,
                                             sanitized_duration)),
                    [key \in DOMAIN stats.daily_stats \cup {day} |->
                        IF key = day THEN updated ELSE stats.daily_stats[key]],
                    day))
           /\ stats_backups' = read.backups
    /\ stats_last' = "record"
    /\ stats_report' = NoReport
    /\ spc' = [spc EXCEPT ![c] = "idle"]
    /\ recording' = [recording EXCEPT ![c] = NoRecording]
    /\ UNCHANGED <<today, records, offStats>>

\* get_usage_stats
get_usage_stats ==
    /\ LET read == read_usage_stats(stats_file, stats_backups, today)
       IN  /\ stats_file' = read.file
           /\ stats_backups' = read.backups
           /\ stats_report' = build_usage_report(read.stats, today,
                                                 DEFAULT_HISTORY_WINDOW_DAYS)
    /\ stats_last' = "get"
    /\ UNCHANGED <<today, spc, recording, records, offStats>>

\* reset_usage_stats
reset_usage_stats ==
    /\ stats_file' = JsonStats(UsageStats_default(today))
    /\ stats_last' = "reset"
    /\ stats_report' = NoReport
    /\ UNCHANGED <<stats_backups, today, spc, recording, records, offStats>>

\* the local day changes
Midnight ==
    /\ today < MaxDay
    /\ today' = today + 1
    /\ stats_report' = NoReport
    /\ UNCHANGED <<stats_file, stats_backups, spc, recording, records, stats_last, offStats>>

\* files the store can find at file_path: the stats the streak test seeds, a key that
\* is no date, a word total at the top of u64, and text that is no JSON
SeededStats ==
    JsonStats(UsageStats(U64(4), U64(68), F64(33),
        [key \in {date_key(0), date_key(-1), date_key(-3)} |->
            IF key = date_key(0) THEN DailyStats(U64(2), U64(40), F64(20))
            ELSE IF key = date_key(-1) THEN DailyStats(U64(1), U64(18), F64(8))
            ELSE DailyStats(U64(1), U64(10), F64(5))],
        date_key(0)))
BadKeyStats ==
    JsonStats(UsageStats(U64(1), U64(7), NaN,
        [key \in {NotADate} |-> DailyStats(U64(1), U64(7), F64(-2))], NotADate))
FoundStats == {SeededStats, BadKeyStats, MalformedStats, BlankStats}

\* the file is written from outside the store before its first call
stats_fs_write(contents) ==
    /\ stats_last = "none"
    /\ records = 0
    /\ today = 0
    /\ stats_file = JsonStats(UsageStats_default(0))
    /\ stats_file' = contents
    /\ UNCHANGED <<stats_backups, today, spc, recording, records, stats_report, stats_last,
                   offStats>>

\* inputs
WordCounts == {U64(5), U64_MAX}
Durations == {F64(30), F64(-10), NaN, Infinity}

StatsNext ==
    \/ \E contents \in FoundStats : stats_fs_write(contents)
    \/ \E c \in Recorders, word_count \in WordCounts, duration \in Durations :
            RecordCall(c, word_count, duration)
    \/ \E c \in Recorders : RecordCommit(c)
    \/ get_usage_stats
    \/ reset_usage_stats
    \/ Midnight

SpecStats == Init /\ [][StatsNext]_vars

\* ------------------------------------------------------------------ claims

\* C1: after any sequence of begin_session calls, is_session_active is true exactly
\* for the id the most recent call returned and false for every earlier id.
C1_OnlyLatestSessionActive ==
    \A i \in 1..Len(issued) : is_session_active(issued[i]) <=> (i = Len(issued))

C1_Witness ==
    /\ Len(issued) >= 2
    /\ ~is_session_active(issued[1])
    /\ is_session_active(issued[Len(issued)])

Last(q) == q[Len(q)]
Called(o) == Len(calls'[o]) > Len(calls[o])
Superseded(d) == d # None /\ ~is_session_active(d)

\* C2: a delegate call changes the status, emits an event or inserts text only if the
\* delegate's session is the active one when the call is made; a call on a superseded
\* session changes nothing, and its insert_text returns Ok.
C2_SupersededDelegateIsNoOp ==
    [][\A o \in Origins :
          (Called(o) /\ Superseded(Last(calls'[o]).session)) =>
              /\ status' = status
              /\ emitted' = emitted
              /\ inserted' = inserted
              /\ (Last(calls'[o]).op = "insert_text" => ret' = Ok(Unit))]_vars

C2_Witness ==
    /\ Len(calls[Harness]) = 1
    /\ Superseded(calls[Harness][1].session)
    /\ calls[Harness][1].op = "insert_text"
    /\ inserted[Harness] = <<>>
    /\ emitted[Harness] = <<>>


\* ------------------------------------------------- claims on the hotkey runs

OpsOf(t, ops) == SelectSeq(calls[t], LAMBDA c : c.op \in ops)
EventsOf(t, name) == SelectSeq(emitted[t], LAMBDA e : e.event = name)
StatusEvents(t) == EventsOf(t, EVENT_STATUS_CHANGED)
TranscriptEvents(t) == EventsOf(t, EVENT_TRANSCRIPT_READY)
ErrorEvents(t) == EventsOf(t, EVENT_PIPELINE_ERROR)
Has(t, op) == OpsOf(t, {op}) # <<>>
Pos(t, op) == CHOOSE i \in 1..Len(calls[t]) : calls[t][i].op = op

\* C3: with two stop triggers, while the second is queued on the execution lock and
\* the first is inside it, the first run's status changes, transcript event and error
\* event do not reach observers.
C3_QueuedStopSilencesRunningStop ==
    [][\A t1, t2 \in Tasks :
          (/\ t1 # t2
           /\ kind[t1] = "stopped" /\ kind[t2] = "stopped"
           /\ InBody(t1) /\ pc[t2] = "lock")
          => emitted'[t1] = emitted[t1]]_vars

\* C4: at most one hotkey pipeline body runs at a time; a task makes no delegate call
\* before it holds the execution lock and holds it until its body returns.
C4_OneBodyAtATime ==
    /\ Cardinality({t \in Tasks : InBody(t)}) <= 1
    /\ \A t \in Tasks : InBody(t) => execution_lock = t
    /\ \A t \in Tasks :
          pc[t] \in {"unspawned", "lock"} =>
              calls[t] = <<>> /\ acks[t] = <<>> /\ emitted[t] = <<>> /\ inserted[t] = <<>>

C4_Witness ==
    \E t1, t2 \in Tasks :
        /\ pc[t1] = "transcribe_await" /\ execution_lock = t1
        /\ pc[t2] = "lock"

\* C5: a stop trigger handled while no recording is active calls none of stop_recording,
\* transcribe and insert_text, changes no status, emits no event, and acknowledges the
\* Stopped transition exactly once, with success = false.
C5_StopWithoutRecording ==
    \A t \in Tasks :
        recording_seen[t] = "no" =>
            /\ calls[t] = <<>>
            /\ emitted[t] = <<>>
            /\ inserted[t] = <<>>
            /\ acks[t] = <<[transition |-> "Stopped", success |-> FALSE]>>
            /\ pc[t] \in {"release", "done"}

C5_Witness ==
    \E t \in Tasks :
        /\ recording_seen[t] = "no" /\ pc[t] = "done"
        /\ acks[t] = <<[transition |-> "Stopped", success |-> FALSE]>>

Delivered(t) ==
    /\ inserted[t] = <<text[t]>>
    /\ TranscriptEvents(t) = <<Event(EVENT_TRANSCRIPT_READY, text[t])>>
    /\ StatusEvents(t) # <<>>
    /\ Last(StatusEvents(t)).payload = "Idle"

\* C6 as stated: every finished stop run whose capture stop and transcription succeeded
\* has inserted the transcript once, emitted one transcript-ready event with it and
\* ended with status Idle.
C6_Original ==
    \A t \in Tasks :
        (pc[t] = "done" /\ audio[t] # "" /\ text[t] # "") => Delivered(t)

\* C6 amended: every finished stop run whose capture stop, transcription and insertion
\* succeeded has inserted the transcript once, emitted one transcript-ready event with
\* the text transcribe returned and ended with status Idle; no run inserts or emits a
\* transcript more than once.
C6_DeliveredExactlyOnce ==
    \A t \in Tasks :
        /\ Len(inserted[t]) <= 1
        /\ Len(TranscriptEvents(t)) <= 1
        /\ (pc[t] = "done" /\ audio[t] # "" /\ text[t] # "" /\ stage[t] = "") => Delivered(t)
        /\ (pc[t] = "release" /\ text[t] # "" /\ stage[t] = "") => status = "Idle"

C6_Witness ==
    \E t \in Tasks :
        /\ pc[t] = "done" /\ text[t] = "world" /\ stage[t] = ""
        /\ inserted[t] = <<"world">>
        /\ Len(TranscriptEvents(t)) = 1

StageOps == {"start_recording", "stop_recording", "transcribe", "insert_text"}
StageOf(op) ==
    CASE op \in {"start_recording", "stop_recording"} -> "capture"
      [] op = "transcribe" -> "transcription"
      [] op = "insert_text" -> "insertion"

\* C7: a run whose stage failed reports exactly one error, tagged with that stage, sets
\* status Error and invokes no later stage; no stage is invoked twice in a run.
C7_StageFailure ==
    \A t \in Tasks :
        /\ \A op \in StageOps : Len(OpsOf(t, {op})) <= 1
        /\ Len(ErrorEvents(t)) <= 1
        /\ (stage[t] # "" /\ pc[t] \in {"release", "done"}) =>
              /\ ErrorEvents(t) = <<Event(EVENT_PIPELINE_ERROR, stage[t])>>
              /\ stage[t] = StageOf(Last(OpsOf(t, StageOps)).op)
              /\ Last(StatusEvents(t)).payload = "Error"
        /\ (stage[t] # "" /\ pc[t] = "release") => status = "Error"

C7_Witness ==
    \E t \in Tasks :
        /\ pc[t] = "done" /\ stage[t] = "insertion"
        /\ ErrorEvents(t) = <<Event(EVENT_PIPELINE_ERROR, "insertion")>>

Rank(st) == CASE st = "Listening" -> 1 [] st = "Transcribing" -> 2 [] OTHER -> 3

\* C8: in a run, stop_recording has returned its audio before transcribe is invoked with
\* it, transcribe has returned before insert_text is attempted, and the statuses the run
\* emits are in the order Listening, Transcribing, then Idle or Error.
C8_StageOrder ==
    \A t \in Tasks :
        /\ Has(t, "transcribe") =>
              /\ Has(t, "stop_recording")
              /\ Pos(t, "stop_recording") < Pos(t, "transcribe")
              /\ audio[t] = Wav
              /\ calls[t][Pos(t, "transcribe")].arg = Wav
        /\ Has(t, "insert_text") =>
              /\ Has(t, "transcribe")
              /\ Pos(t, "transcribe") < Pos(t, "insert_text")
              /\ pc[t] \notin {"transcribe", "transcribe_await"}
              /\ text[t] \in Texts
              /\ calls[t][Pos(t, "insert_text")].arg = text[t]
        /\ \A i, j \in 1..Len(StatusEvents(t)) :
              i < j => Rank(StatusEvents(t)[i].payload) < Rank(StatusEvents(t)[j].payload)

C8_Witness ==
    \E t \in Tasks :
        /\ Has(t, "insert_text")
        /\ pc[t] = "done"
        /\ Len(StatusEvents(t)) = 2


\* ------------------------------------------------------ claims on FairSpec

Stable == status \in {"Idle", "Error"}
StopRunFinishing(t) == kind[t] = "stopped" /\ pc[t] = "release"
StopRunFinished(t) == kind[t] = "stopped" /\ pc[t] = "done"
DirectFailed(r) == dpc[r] \in {"spawned", "set_error"}
Quiescent ==
    /\ \A t \in Tasks : ~InBody(t)
    /\ \A r \in Reqs : dpc[r] \in {"idle", "done"}

\* C9: when a stop run returns, and when a direct transcription request has failed, the
\* status eventually is Idle or Error and the execution lock eventually is free; a direct
\* request that ends does so with the status Idle or Error; a finished run does not hold
\* the execution lock; with no run and no request in flight the status is not
\* Transcribing.
C9_ReturnsToStableStatus ==
    /\ ((\E t \in Tasks : StopRunFinishing(t)) \/ (\E r \in Reqs : DirectFailed(r))) ~> Stable
    /\ (\E t \in Tasks : StopRunFinishing(t)) ~> (execution_lock = 0)
    /\ [][\A r \in Reqs : (dpc[r] # "done" /\ dpc'[r] = "done") => Stable']_vars
    /\ [](\A t \in Tasks : pc[t] = "done" => execution_lock # t)
    /\ [](Quiescent => status # "Transcribing")

C9_Witness ==
    \E t \in Tasks, r \in Reqs :
        /\ StopRunFinished(t) /\ stage[t] = "transcription"
        /\ dpc[r] = "done" /\ ErrorEvents(r) # <<>>
        /\ Stable /\ execution_lock = 0


\* ---------------------------------------------------- claims on SpecBridge

\* C10: a callback carrying another request id than the expected one never resolves the
\* bridged call; the call is resolved only by a callback carrying the expected id, at
\* most once, and no connection is accepted after the one that resolved it.
C10_OnlyMatchingCallbackResolves ==
    /\ \A i \in 1..Len(handled) :
          handled[i].response = "204 No Content" =>
              /\ handled[i].request_id = expected_request_id
              /\ i = Len(handled)
              /\ bpc = "resolved"
    /\ bpc = "resolved" =>
          /\ handled # <<>>
          /\ Last(handled).response = "204 No Content"
          /\ bridge_result = [kind |-> "Ok", request_id |-> expected_request_id]
    /\ bpc # "resolved" => bridge_result.kind # "Ok"

C10_Witness ==
    /\ bpc = "resolved"
    /\ Len(handled) = 2
    /\ handled[1].response = "202 Accepted"
    /\ handled[1].request_id \notin {"", expected_request_id}

\* C11 as stated: a bridged call that ended with no callback carrying the expected id
\* accepted has failed with a Network error.
C11_Original ==
    (bpc \in {"failed", "timed_out"}) => bridge_result.kind = "Network"

\* C11: a bridged call that is still waiting when max(request_timeout_secs, 180) seconds
\* have passed fails with a Network error and its listener is released; the wait never
\* outlasts that bound, which is at least 180 and at least the configured timeout; a call
\* ends earlier without a matching callback only when a connection failed it.
C11_TimeoutFailsWithNetwork ==
    /\ bridge_timeout_secs >= BRIDGE_REQUEST_TIMEOUT_SECS
    /\ bridge_timeout_secs >= request_timeout_secs
    /\ bpc = "waiting" => listener_bound /\ waited <= bridge_timeout_secs
    /\ bpc = "timed_out" =>
          /\ waited >= BRIDGE_REQUEST_TIMEOUT_SECS
          /\ waited >= request_timeout_secs
          /\ bridge_result = [kind |-> "Network", request_id |-> ""]
          /\ ~listener_bound
          /\ \A i \in 1..Len(handled) : handled[i].response # "204 No Content"
    /\ bpc = "failed" =>
          /\ ~listener_bound
          /\ handled # <<>>
          /\ Last(handled).response = "none"
          /\ bridge_result.kind \in {"Network", "InvalidResponse"}

C11_Witness ==
    /\ bpc = "timed_out"
    /\ request_timeout_secs = 5
    /\ waited = 180
    /\ Len(handled) = 1
    /\ handled[1].response = "202 Accepted"

\* ---------------------------------------------------- claims on SpecErrors

\* the kind the status of a failed response is to be mapped to
KindOf(code) ==
    IF code \in {401, 403} THEN "Authentication"
    ELSE IF code = 429 THEN "RateLimited"
    ELSE IF code = 408 \/ code >= 500 THEN "Network"
    ELSE "Provider"

\* C14: for every non-success status the error kind is Authentication for 401 and 403,
\* RateLimited for 429, Network for 408 and every status >= 500 and Provider otherwise,
\* in map_bridge_http_error without a bridge error string and in map_http_error.
C14_StatusToKind ==
    (/\ mapped.via \in {"bridge", "http"}
     /\ mapped.status.some
     /\ ~is_success(mapped.status.v)
     /\ ~normalize_optional_string(mapped.bridge_error).some)
        => mapped.error.kind = KindOf(mapped.status.v)

\* C15: the message of the error is the trimmed, non-blank error.message of the JSON body,
\* or the error member itself when it is a non-blank string, or otherwise the non-blank
\* top-level message; 401 with {"error":{"message":"Token invalid"}} gives
\* Authentication("Token invalid").
NonBlank(member) == member.t = "str" /\ trim(member.s) # <<>>
NonBlankInner(member) == member.t = "obj" /\ member.mt = "str" /\ trim(member.ms) # <<>>
Trimmed(v) == v # <<>> /\ Head(v) \notin Whitespace /\ Last(v) \notin Whitespace
C15_MessageFromBody ==
    (/\ mapped.via \in {"bridge", "http"}
     /\ mapped.body.some
     /\ mapped.body.v.json
     /\ ~normalize_optional_string(mapped.bridge_error).some)
        => LET body == mapped.body.v
               message == mapped.error.message
           IN  /\ NonBlankInner(body.error) =>
                     message = trim(body.error.ms) /\ Trimmed(message)
               /\ NonBlank(body.error) =>
                     message = trim(body.error.s) /\ Trimmed(message)
               /\ (~NonBlankInner(body.error) /\ ~NonBlank(body.error) /\ NonBlank(body.message)) =>
                     message = trim(body.message.s) /\ Trimmed(message)
               /\ (mapped.status = SomeStatus(401)
                     /\ body.error = Member("obj", <<>>, "str", TokenInvalid)) =>
                     mapped.error = Error("Authentication", TokenInvalid)

C15_Witness ==
    /\ mapped.via = "http"
    /\ mapped.status = SomeStatus(401)
    /\ mapped.body.v.error = Member("obj", <<>>, "str", <<" ">> \o TokenInvalid \o <<"\t">>)
    /\ mapped.body.v.message = JsonString(<<"n", "o">>)
    /\ mapped.error = Error("Authentication", TokenInvalid)

\* -------------------------------------------------- claims on SpecProvider

\* the caller is past self.request_lock.lock().await and has not returned
PastLock(c) ==
    /\ via[c] = "webview"
    /\ vpc[c] \in {"auth", "refresh", "window", "warmup", "bind", "eval", "wait"}

\* C12: at most one transcribe_via_webview call is past the request lock at any time, it
\* is the holder of the lock, and at most one callback listener is bound, by that call.
C12_OneBridgedCallAtATime ==
    /\ \A c, d \in Callers : PastLock(c) /\ PastLock(d) => c = d
    /\ \A c \in Callers : PastLock(c) => request_lock = c
    /\ Cardinality(listeners) <= 1
    /\ \A c \in listeners : PastLock(c) /\ vpc[c] \in {"eval", "wait"}

C12_Witness ==
    \E c, d \in Callers :
        /\ vpc[c] = "wait"
        /\ c \in listeners
        /\ via[d] = "webview"
        /\ vpc[d] = "lock"

\* the caller's auth_context went into the refresh exchange
Refreshing(c) == vpc[c] = "refresh" \/ refreshed[c].state # "none"

\* C13: auth_context refreshes exactly when the stored expires_at <= now + 60: at
\* now + 61 the stored token is returned unchanged without a refresh, at now + 60 and
\* now + 59 the token is refreshed before anything is returned.
C13_RefreshIffNearExpiry ==
    \A c \in Callers :
        credentials[c].some =>
            /\ Refreshing(c) <=> credentials[c].expires_at <= now_read[c] + 60
            /\ credentials[c].expires_at = now_read[c] + 61 =>
                  /\ ~Refreshing(c)
                  /\ auth[c] = AuthOk(credentials[c].access_token, credentials[c].account_id)
            /\ credentials[c].expires_at \in {now_read[c] + 59, now_read[c] + 60} =>
                  /\ Refreshing(c)
                  /\ auth[c].kind = "Ok" =>
                        /\ refreshed[c].state = "ok"
                        /\ auth[c].access_token = refreshed[c].access_token

C13_Witness ==
    \E c \in Callers :
        /\ credentials[c].expires_at = now_read[c] + 60
        /\ refreshed[c].state = "ok"
        /\ auth[c] = AuthOk("at-1", "acct-1")
        /\ stored.expires_at > now_read[c] + 61

\* the caller's auth_context returns Ok from its refresh in this step
RefreshSucceeds(c) == vpc[c] = "refresh" /\ vpc'[c] \notin {"refresh", "done"}

C17_RefreshFailureIsAuthentication ==
    [][/\ \A c \in Callers :
            (vpc[c] = "refresh" /\ refreshed'[c].state \notin {"none", "ok"}) =>
                /\ auth'[c] = AuthErr("Authentication")
                /\ outcome'[c] = "Authentication"
                /\ vpc'[c] = "done"
                /\ stored' = stored
       /\ stored' # stored =>
            \/ auth_method' # auth_method
            \/ \E c \in Callers : RefreshSucceeds(c) /\ refreshed'[c].state = "ok"]_vars

C17_Witness ==
    \E c \in Callers :
        /\ refreshed[c] = RefreshErr("transport")
        /\ outcome[c] = "Authentication"
        /\ stored.access_token = "at-0"

\* the history as the store reads it: what a listing of everything returns
History == read_entries(history_file, backups).entries

\* C18: whatever add_entry, delete_entry and clear_history calls came before, and in
\* whatever order the entries were added, the entries the store reads, and so every
\* result of list_entries, are newest first: no entry is followed by one whose timestamp
\* is greater.
C18_ListIsNewestFirst ==
    /\ newest_first(History)
    /\ last_call.op = "list" => newest_first(last_call.entries)

\* a history of three entries with three different timestamps, "10" older than "2" as
\* strings compare, was listed from index 1 on
C18_Witness ==
    /\ last_call.op = "list"
    /\ Len(last_call.entries) = 2
    /\ last_call.offset = 1
    /\ Len(History) = 3
    /\ History[1].timestamp = <<"2">>
    /\ History[2].timestamp = <<"1", "0">>
    /\ History[3].timestamp = <<"1">>
    /\ last_call.entries = <<History[2], History[3]>>

remaining(offset) == IF offset >= Len(History) THEN 0 ELSE Len(History) - offset

\* C19: list_entries(limit, offset) returns the entries of the newest-first history from
\* index offset on, min(limit, 200, remaining entries) of them: nothing for limit 0,
\* nothing for an offset at or past the end, never more than MAX_HISTORY_PAGE_SIZE
\* entries; the history is the same after the call, and so is a well-formed file.
C19_ListReturnsPage ==
    [][last_call'.op = "list" =>
        LET limit == last_call'.limit
            offset == last_call'.offset
            length == Min(limit, Min(MAX_HISTORY_PAGE_SIZE, remaining(offset)))
        IN  /\ last_call'.entries = [i \in 1..length |-> History[offset + i]]
            /\ Len(last_call'.entries) <= MAX_HISTORY_PAGE_SIZE
            /\ limit = 0 => last_call'.entries = <<>>
            /\ offset >= Len(History) => last_call'.entries = <<>>
            /\ History' = History
            /\ live_ids' = live_ids
            /\ history_file.kind = "json" /\ History # <<>> => history_file' = history_file
    ]_vars

\* a listing asked for more than a page of a history longer than a page, from index 1 on,
\* and got exactly a page
C19_Witness ==
    /\ last_call.op = "list"
    /\ last_call.limit = MAX_HISTORY_PAGE_SIZE + 1
    /\ last_call.offset = 0
    /\ Len(History) = MAX_HISTORY_PAGE_SIZE + 1
    /\ Len(last_call.entries) = MAX_HISTORY_PAGE_SIZE
    /\ last_call.entries[MAX_HISTORY_PAGE_SIZE] = History[MAX_HISTORY_PAGE_SIZE]

HistoryIds == {History[i].id : i \in 1..Len(History)}

\* C20: get_entry(id) returns an entry, one with that id, exactly when the id was added
\* and not deleted or cleared since; delete_entry(id) returns true and leaves no entry
\* with that id, and every other entry, when the id is present; it returns false and
\* leaves the history as it was when the id is absent; the history is empty after
\* clear_history.
C20_GetDeleteClear ==
    [][/\ last_call'.op = "get" =>
            /\ last_call'.found <=> last_call'.id \in live_ids
            /\ last_call'.found =>
                    /\ Len(last_call'.entries) = 1
                    /\ last_call'.entries[1].id = last_call'.id
                    /\ \E i \in 1..Len(History) : History[i] = last_call'.entries[1]
            /\ History' = History
       /\ last_call'.op = "delete" =>
            /\ last_call'.found <=> last_call'.id \in live_ids
            /\ last_call'.found <=> last_call'.id \in HistoryIds
            /\ History' = SelectSeq(History, LAMBDA entry : entry.id # last_call'.id)
            /\ ~last_call'.found => History' = History
            /\ last_call'.id \notin live_ids'
       /\ last_call'.op = "clear" => History' = <<>> /\ live_ids' = {}
    ]_vars

\* one of two added entries was deleted: the call returned true and the other one is
\* what the history still holds
C20_Witness ==
    /\ last_call.op = "delete"
    /\ last_call.found
    /\ last_call.id = <<"a">>
    /\ live_ids = {<<"b">>}
    /\ Len(History) = 1
    /\ History[1].id = <<"b">>
    /\ backups = 0

Blank(v) == \A i \in 1..Len(v) : v[i] \in Whitespace

\* C21: add_entry refuses an entry exactly when its id, text, timestamp or provider is
\* empty or blank; the error names the blank field (the first one in that order), and
\* the refused call leaves the file, its backups and the history as they were.
C21_BlankFieldRejected ==
    [][last_call'.op = "add" =>
        LET entry == last_call'.entries[1]
            error == last_call'.error
        IN  /\ ~last_call'.ok <=>
                    \/ Blank(entry.id) \/ Blank(entry.text)
                    \/ Blank(entry.timestamp) \/ Blank(entry.provider)
            /\ Blank(entry.id) => error = "History entry id cannot be empty"
            /\ ~Blank(entry.id) /\ Blank(entry.text) =>
                    error = "History entry text cannot be empty"
            /\ ~Blank(entry.id) /\ ~Blank(entry.text) /\ Blank(entry.timestamp) =>
                    error = "History entry timestamp cannot be empty"
            /\ ~Blank(entry.id) /\ ~Blank(entry.text) /\ ~Blank(entry.timestamp)
                    /\ Blank(entry.provider) =>
                    error = "History entry provider cannot be empty"
            /\ ~last_call'.ok =>
                    /\ history_file' = history_file
                    /\ backups' = backups
                    /\ History' = History
                    /\ live_ids' = live_ids
    ]_vars

\* an entry whose timestamp is one blank was refused by a store that holds an entry
C21_Witness ==
    /\ last_call.op = "add"
    /\ ~last_call.ok
    /\ last_call.entries[1].timestamp = <<" ">>
    /\ last_call.error = "History entry timestamp cannot be empty"
    /\ Len(History) = 1

\* the file holds text that is no JSON list of entries, or an entry that fails validation
BadFile(file) ==
    \/ file.kind = "malformed"
    \/ /\ file.kind = "json"
       /\ \E i \in 1..Len(file.entries) :
            \/ Blank(file.entries[i].id) \/ Blank(file.entries[i].text)
            \/ Blank(file.entries[i].timestamp) \/ Blank(file.entries[i].provider)

\* the call read the file: every call but a listing with limit 0, an add_entry that was
\* refused, and clear_history
ReadsFile(call) ==
    \/ call.op \in {"get", "delete"}
    \/ call.op = "list" /\ call.limit # 0
    \/ call.op = "add" /\ call.ok

\* C22 as stated: with a bad history file, whatever store operation comes next succeeds,
\* leaves exactly one more backup and the file reset to [], and sees an empty history.
C22_Original ==
    [][BadFile(history_file) /\ last_call'.op # "none" =>
        /\ last_call'.ok
        /\ backups' = backups + 1
        /\ history_file' = JsonFile(<<>>)
        /\ ~last_call'.found
        /\ last_call'.op # "add" => last_call'.entries = <<>>
    ]_vars

\* C22: with a bad history file, the next store operation that reads the file succeeds:
\* the bad file is moved to exactly one backup, the file is written anew as [], and the
\* operation sees an empty history: a listing and get_entry return nothing, delete_entry
\* returns false and the file stays [], add_entry leaves its entry as the only one.
C22_MalformedFileRecovered ==
    [][BadFile(history_file) /\ ReadsFile(last_call') =>
        /\ last_call'.ok
        /\ backups' = backups + 1
        /\ ~last_call'.found
        /\ last_call'.op # "add" =>
                last_call'.entries = <<>> /\ history_file' = JsonFile(<<>>)
        /\ last_call'.op = "add" => history_file' = JsonFile(last_call'.entries)
        /\ ~BadFile(history_file')
    ]_vars

\* a listing found a file with an entry of blank text and returned nothing; one backup
C22_Witness ==
    /\ last_call.op = "list"
    /\ last_call.limit = 2
    /\ last_call.entries = <<>>
    /\ backups = 1
    /\ history_file = JsonFile(<<>>)
    /\ live_ids = {}

\* the stats as the store reads them, and the report get_usage_stats would return now
Stats == read_usage_stats(stats_file, stats_backups, today).stats
Report == build_usage_report(Stats, today, DEFAULT_HISTORY_WINDOW_DAYS)

\* the stats of one day key in the stats `stats`
DayOf(stats, key) ==
    IF key \in DOMAIN stats.daily_stats THEN stats.daily_stats[key] ELSE DailyStats_default

Wide(n) == <<0>> \o n
Capped(wide) == IF wide[1] # 0 THEN U64_MAX ELSE Tail(wide)
Positive(duration) == duration.class = "finite" /\ duration.v > 0
Seconds(duration) == IF Positive(duration) THEN duration.v ELSE 0

\* a record_transcription call `call` of recorder c goes from the stats `before`, through
\* the lock, to the stats `after`
Recorded(c, call, before, after) ==
    /\ spc[c] = "lock" /\ spc'[c] = "idle"
    /\ call = recording[c]
    /\ before = Stats
    /\ after = Stats'

\* C23 as stated: each record_transcription(word_count, duration) increases the total of
\* transcriptions by 1 and the total of words by word_count, and the transcriptions and
\* words of its day by the same amounts; a negative or non-finite duration adds 0 seconds.
C23_Original ==
    [][\A c \in Recorders, call \in {recording[d] : d \in Recorders},
          before \in {Stats}, after \in {Stats'} :
        Recorded(c, call, before, after) =>
        /\ Wide(after.total_transcriptions) = wide_add(before.total_transcriptions, U64(1))
        /\ Wide(after.total_words) = wide_add(before.total_words, call.word_count)
        /\ Wide(DayOf(after, call.today).transcriptions)
                = wide_add(DayOf(before, call.today).transcriptions, U64(1))
        /\ Wide(DayOf(after, call.today).words)
                = wide_add(DayOf(before, call.today).words, call.word_count)
        /\ call.clamped => after.total_recording_seconds = before.total_recording_seconds
    ]_vars

\* C23: each record_transcription(word_count, duration) increases the total of
\* transcriptions by 1 and the total of words by word_count, and the transcriptions and
\* words of the day the call read by the same amounts, each sum stopping at u64::MAX; the
\* other days are as they were; a negative or non-finite duration still counts the
\* transcription and its words and adds 0 seconds. get_usage_stats reports these totals.
C23_RecordAccumulates ==
    [][/\ \A c \in Recorders, call \in {recording[d] : d \in Recorders},
             before \in {Stats}, after \in {Stats'} :
            Recorded(c, call, before, after) =>
            /\ after.total_transcriptions
                    = Capped(wide_add(before.total_transcriptions, U64(1)))
            /\ after.total_words = Capped(wide_add(before.total_words, call.word_count))
            /\ DayOf(after, call.today).transcriptions
                    = Capped(wide_add(DayOf(before, call.today).transcriptions, U64(1)))
            /\ DayOf(after, call.today).words
                    = Capped(wide_add(DayOf(before, call.today).words, call.word_count))
            /\ DOMAIN after.daily_stats = DOMAIN before.daily_stats \cup {call.today}
            /\ \A key \in DOMAIN before.daily_stats :
                    key # call.today => after.daily_stats[key] = before.daily_stats[key]
            /\ after.total_recording_seconds.class = "finite"
            /\ after.total_recording_seconds.v
                    = before.total_recording_seconds.v + Seconds(call.duration)
            /\ DayOf(after, call.today).recording_seconds.v
                    = DayOf(before, call.today).recording_seconds.v + Seconds(call.duration)
            /\ call.clamped =>
                    /\ after.total_recording_seconds = before.total_recording_seconds
                    /\ DayOf(after, call.today).recording_seconds
                            = DayOf(before, call.today).recording_seconds
       /\ \A duration \in Durations : ~Positive(duration) =>
            sanitize_seconds(duration) = F64(0)
       /\ \A before \in {Stats} : stats_last' = "get" /\ stats_report'.returned =>
            /\ stats_report'.total_transcriptions = before.total_transcriptions
            /\ stats_report'.total_words = before.total_words
            /\ stats_report'.total_recording_seconds = before.total_recording_seconds
            /\ stats_report'.today = DayOf(before, date_key(today))
    ]_vars

\* two records of five words were made on one day, one of thirty seconds and one whose
\* duration was negative or no finite number: two transcriptions, ten words, thirty seconds
C23_Witness ==
    /\ stats_last = "record"
    /\ records = 2
    /\ \A c \in Recorders : spc[c] = "idle"
    /\ Stats.total_transcriptions = U64(2)
    /\ Stats.total_words = U64(10)
    /\ Stats.total_recording_seconds = F64(30)
    /\ DayOf(Stats, date_key(today)).transcriptions = U64(2)
    /\ stats_file.stats.last_updated = date_key(today)

ZeroReport(report) ==
    /\ report.returned
    /\ report.total_transcriptions = U64(0)
    /\ report.total_words = U64(0)
    /\ report.streak_days = 0
    /\ report.today = DailyStats_default
    /\ Len(report.daily_word_history) = DEFAULT_HISTORY_WINDOW_DAYS
    /\ \A i \in 1..Len(report.daily_word_history) :
            report.daily_word_history[i].words = U64(0)

\* C24: after reset_usage_stats, whatever was recorded before, the report of
\* get_usage_stats has no transcriptions, no words, a streak of 0 days, a day of zeros
\* for today and 0 words at every point of the daily word history.
C24_ResetClearsReport ==
    [][/\ stats_last' = "reset" => \A report \in {Report'} : ZeroReport(report)
       /\ stats_last = "reset" /\ stats_last' = "get" =>
            \A report \in {stats_report'} : ZeroReport(report)
    ]_vars

\* two records were made and committed, the store was reset, and the report asked for
C24_Witness ==
    /\ stats_last = "get"
    /\ records = 2
    /\ \A c \in Recorders : spc[c] = "idle"
    /\ stats_backups = 0
    /\ stats_file = JsonStats(UsageStats_default(today))
    /\ ZeroReport(stats_report)

\* the day has at least one transcription in the stats as the store reads them
Active(date) == DayOf(Stats, date_key(date)).transcriptions # U64(0)

\* C25: streak_days is the number of consecutive days, counted backwards from today, that
\* each have at least one transcription: every day of the streak has one and the day
\* before the streak has none, so the streak is 0 when today has none and a day without
\* activity ends it whatever the days before hold.
C25_StreakCountsBackFromToday ==
    /\ \A streak \in {Report.streak_days} :
            /\ \A i \in 0..(streak - 1) : Active(today - i)
            /\ ~Active(today - streak)
            /\ stats_report.returned => stats_report.streak_days = streak

\* the report counts a streak of two days, today and the day before, and not the
\* transcription of three days ago, which a day without any separates from them
C25_Witness ==
    /\ stats_last = "get"
    /\ stats_report.returned
    /\ stats_report.streak_days = 2
    /\ Active(today) /\ Active(today - 1) /\ ~Active(today - 2) /\ Active(today - 3)

\* C26: every callback of a delegate whose session is superseded is a silent no-op,
\* on_recording_started and on_recording_stopped included: the call acknowledges no
\* recording transition to the hotkey service, and changes neither its recording flag
\* nor the status, the events or the inserted text.
C26_SupersededDelegateNeverAcknowledges ==
    [][\A o \in Origins :
          (Called(o) /\ Superseded(Last(calls'[o]).session)) =>
              /\ acks' = acks
              /\ hotkey_recording' = hotkey_recording
              /\ status' = status
              /\ emitted' = emitted
              /\ inserted' = inserted]_vars

\* C27: on a hotkey trigger the session is begun before the task takes the execution
\* lock: a task that waits for the lock has its session already, and the session of a
\* pipeline body that runs while a trigger waits is no longer the active one.
C27_SessionBegunBeforeLock ==
    \A u \in Tasks : pc[u] = "lock" =>
        /\ session[u] # None
        /\ \A t \in Tasks : InBody(t) /\ session[t] # None => ~is_session_active(session[t])

DirectSucceeded(r) ==
    /\ calls[r] = <<>>
    /\ emitted[r] = <<Event(EVENT_STATUS_CHANGED, "Transcribing"),
                      Event(EVENT_STATUS_CHANGED, "Idle")>>

DirectReported(r) ==
    /\ calls[r] = <<Call(None, "emit_error", "transcription"),
                    Call(None, "set_status", "Error")>>
    /\ emitted[r] = <<Event(EVENT_STATUS_CHANGED, "Transcribing"),
                      Event(EVENT_PIPELINE_ERROR, "transcription"),
                      Event(EVENT_STATUS_CHANGED, "Error")>>

\* C28: a transcribe_audio request takes no execution lock and begins no session: none of
\* its steps changes next_session_id, active_session_id or the lock, and it starts
\* whoever holds the lock. It sets Transcribing, and Idle when the orchestrator
\* succeeds. When the orchestrator fails it returns without another status or event, and
\* the task it spawned reports, on a delegate without session, one error of stage
\* transcription and the status Error, whatever session is active by then.
C28_DirectRequest ==
    [][\A r \in Reqs :
        /\ dpc'[r] # dpc[r] =>
                /\ next_session_id' = next_session_id
                /\ active_session_id' = active_session_id
                /\ execution_lock' = execution_lock
                /\ inserted' = inserted
                /\ acks' = acks
        /\ dpc[r] = "idle" /\ dpc'[r] = "awaiting" => status' = "Transcribing"
        /\ dpc[r] = "awaiting" /\ dpc'[r] = "done" => status' = "Idle"
        /\ dpc[r] = "awaiting" /\ dpc'[r] = "spawned" =>
                status' = status /\ emitted' = emitted /\ calls' = calls
        /\ dpc[r] = "spawned" /\ dpc'[r] # dpc[r] =>
                Last(emitted'[r]) = Event(EVENT_PIPELINE_ERROR, "transcription")
        /\ dpc[r] = "set_error" /\ dpc'[r] # dpc[r] => status' = "Error"
        /\ dpc'[r] = "done" => DirectSucceeded(r)' \/ DirectReported(r)'
    ]_vars

\* a request failed while a hotkey run held the execution lock and a session had begun
\* after the request started: the error was reported all the same
C28_Witness ==
    \E r \in Reqs :
        /\ dpc[r] = "done"
        /\ DirectReported(r)
        /\ execution_lock # 0
        /\ active_session_id >= 1

\* the request of the connection is read, and its target parses as a URL
Readable(conn) == read_http_request(conn).kind = "Ok" /\ conn.url_ok
OtherPath(conn) == Readable(conn) /\ conn.path # BRIDGE_CALLBACK_PATH
OtherId(conn, expected) ==
    /\ Readable(conn)
    /\ payload_json(conn).kind = "json"
    /\ payload_json(conn).request_id # expected

\* a connection was handled in this step
Handled == Len(handled') = Len(handled) + 1

\* what the statement says of the connections handled while a call waits, and of the call
\* after each of them
HandledAsStated ==
    /\ Handled /\ Last(handled').response \in {"404 Not Found", "202 Accepted"} =>
            /\ bpc' = "waiting"
            /\ listener_bound'
            /\ bridge_result' = bridge_result
    /\ Handled /\ Last(handled').response = "204 No Content" =>
            /\ Last(handled').request_id = expected_request_id
            /\ \A i \in 1..Len(handled) : handled[i].response # "204 No Content"
            /\ bpc' = "resolved"
            /\ bridge_result' = [kind |-> "Ok", request_id |-> expected_request_id]
            /\ ~listener_bound'
    /\ Handled /\ Last(handled').request_id = expected_request_id
            /\ expected_request_id # "" /\ Last(handled').response # "none" =>
            Last(handled').response \in
                {"204 No Content", "404 Not Found", "405 Method Not Allowed"}
    /\ bpc # "waiting" => handled' = handled

LeftBridge(c) == vpc[c] \in {"eval", "wait"} /\ vpc'[c] # vpc[c] /\ vpc'[c] # "wait"

\* C30: the callback listener is single-use: a bridged call binds its listener when no
\* other listener is bound, every exit of the call after the bind (script injection
\* failed, timed out, failed on a connection or a payload, or resolved by its callback)
\* drops it, a listener is bound only by a call between its bind and its exit, and the
\* set of bound listeners changes at no other step.
C30_ListenerSingleUse ==
    [][\A c \in Callers :
        /\ vpc[c] = "bind" /\ vpc'[c] = "eval" =>
                listeners = {} /\ listeners' = {c}
        /\ vpc[c] = "bind" /\ vpc'[c] \notin {"bind", "eval"} =>
                vpc'[c] = "done" /\ listeners' = {} /\ listeners = {}
        /\ LeftBridge(c) =>
                /\ listeners = {c}
                /\ listeners' = {}
                /\ vpc'[c] = "done"
        /\ c \in listeners' => via'[c] = "webview" /\ vpc'[c] \in {"eval", "wait"}
        /\ c \in listeners' /\ c \in listeners => vpc[c] \in {"eval", "wait"}
        /\ (c \in listeners') # (c \in listeners) =>
                \/ vpc[c] = "bind" /\ vpc'[c] = "eval"
                \/ LeftBridge(c)
    ]_vars

\* one call was resolved by its callback and returned, and the next call waits on a
\* listener of its own
C30_Witness ==
    \E c, d \in Callers :
        /\ via[c] = "webview"
        /\ vpc[c] = "done"
        /\ outcome[c] = "Ok"
        /\ c \notin listeners
        /\ vpc[d] = "wait"
        /\ listeners = {d}

\* the call of c goes from position from to position to in this step
Moves(c, from, to) == vpc[c] = from /\ vpc'[c] = to

\* C31: in every bridged call the request id is generated first (the callback URL still
\* empty, no listener bound, no script), then the listener is bound, then the callback URL
\* is built with the port of that listener and that same id, then the script is injected;
\* the script is never injected before the listener is bound, and the id the listener
\* expects equals the id in the injected payload and in the callback URL.
C31_BridgeOrder ==
    [][\A c \in Callers :
        /\ vpc'[c] = "bind" /\ vpc[c] # "bind" =>
                /\ vpc[c] = "warmup"
                /\ request'[c].request_id \in RequestIds
                /\ request'[c].callback_url = NoUrl
                /\ c \notin listeners'
                /\ invoked'[c] = NotInvoked
        /\ vpc'[c] = "eval" /\ vpc[c] # "eval" =>
                /\ vpc[c] = "bind"
                /\ request[c].request_id \in RequestIds
                /\ c \notin listeners /\ c \in listeners'
                /\ invoked'[c].callback_port \in Ports
                /\ invoked'[c].expected_request_id = request[c].request_id
                /\ invoked'[c].script = NoScript
                /\ request'[c] = WebviewBridgeRequest(request[c].request_id,
                        [port |-> invoked'[c].callback_port,
                         path |-> BRIDGE_CALLBACK_PATH,
                         requestId |-> request[c].request_id])
        /\ vpc'[c] = "wait" /\ vpc[c] # "wait" =>
                /\ vpc[c] = "eval"
                /\ c \in listeners /\ c \in listeners'
                /\ request'[c] = request[c]
                /\ invoked'[c].callback_port = invoked[c].callback_port
                /\ invoked'[c].expected_request_id = invoked[c].expected_request_id
                /\ invoked'[c].script.payload = request[c]
                /\ invoked'[c].script.payload.request_id = invoked'[c].expected_request_id
                /\ invoked'[c].script.payload.callback_url.requestId =
                        invoked'[c].expected_request_id
                /\ invoked'[c].script.payload.callback_url.port = invoked'[c].callback_port
        /\ invoked'[c].script # NoScript =>
                /\ c \in listeners'
                /\ vpc'[c] = "wait"
                /\ invoked[c].script # NoScript => invoked'[c] = invoked[c]
    ]_vars

\* the second bridged call waits for its callback: its script was injected with the id
\* and the port of its own listener
C31_Witness ==
    \E c \in Callers :
        /\ c > 1
        /\ vpc[c] = "wait"
        /\ c \in listeners
        /\ invoked[c].script.payload.request_id = "uuid-2"
        /\ invoked[c].expected_request_id = "uuid-2"
        /\ invoked[c].script.payload.callback_url = CallbackUrl(49153, "uuid-2")
        /\ invoked[c].callback_port = 49153

\* the iteration on conn returns from the wait with an InvalidResponse or a Network error
EndsCall(conn, expected) ==
    /\ loop_iteration(conn, expected).next = "return"
    /\ loop_iteration(conn, expected).kind \in {"InvalidResponse", "Network"}

\* the request is one of those the statement lists as malformed
MalformedAsStated(conn) ==
    \/ conn.fault \in {"no_terminator", "oversize_headers", "oversize_body",
                       "headers_not_utf8", "body_not_utf8", "no_method", "no_target"}
    \/ /\ conn.fault = "none"
       /\ conn.url_ok
       /\ conn.path = BRIDGE_CALLBACK_PATH
       /\ payload_json(conn).kind = "garbage"

\* a call that failed on a connection returned an error value and waits for nothing more
FailedForGood ==
    /\ bpc = "waiting" /\ bpc' = "failed" =>
            /\ Handled
            /\ Last(handled').response = "none"
            /\ bridge_result'.kind \in {"InvalidResponse", "Network"}
            /\ ~listener_bound'
    /\ bpc = "failed" =>
            /\ bpc' = "failed"
            /\ handled' = handled
            /\ bridge_result' = bridge_result
            /\ ~listener_bound'

\* C32 as stated: every request that lacks the header terminator, exceeds 256 KiB, has
\* headers or body bytes that are not UTF-8, lacks its method or target, or brings to the
\* callback path a payload that is not JSON, ends the call with InvalidResponse or
\* Network.
C32_Original ==
    [][/\ bpc = "idle" /\ bpc' = "waiting" =>
            \A expected \in RequestIds, conn \in Connections :
                MalformedAsStated(conn) => EndsCall(conn, expected)
       /\ FailedForGood
    ]_vars

\* C32: a callback request received while a bridged call waits ends the call with an
\* InvalidResponse or Network error value, and the call waits for no later callback, when
\* it cannot be read, lacks the header terminator, exceeds 256 KiB, has headers that are
\* not UTF-8, lacks its method or target, has bytes that are too many or not UTF-8 within
\* the body its Content-Length declares, or is a GET or POST request whose target does
\* not parse or that brings to the callback path a non-empty payload that is not JSON;
\* bytes after the headers that no Content-Length declares are not looked at, and the
\* request is handled as the same request without them.
C32_MalformedRequestFailsCall ==
    [][/\ bpc = "idle" /\ bpc' = "waiting" =>
            \A expected \in RequestIds, conn \in Connections :
                /\ conn.fault \in HeaderFaults => EndsCall(conn, expected)
                /\ conn.fault = "read_error" =>
                        loop_iteration(conn, expected) = Fail("Network")
                /\ conn.fault \in BodyFaults /\ conn.content_length = "declared" =>
                        loop_iteration(conn, expected) = Fail("InvalidResponse")
                /\ conn.fault \in BodyFaults /\ conn.content_length = "absent" =>
                        loop_iteration(conn, expected) =
                            loop_iteration([conn EXCEPT !.fault = "none"], expected)
                /\ /\ read_http_request(conn).kind = "Ok"
                   /\ conn.method \in {"GET", "POST"}
                   /\ \/ ~conn.url_ok
                      \/ conn.path = BRIDGE_CALLBACK_PATH /\ payload_json(conn).kind = "garbage"
                   => loop_iteration(conn, expected) = Fail("InvalidResponse")
       /\ FailedForGood
    ]_vars

\* the call ignored a callback for another id and then failed on a malformed request
C32_Witness ==
    /\ Len(handled) = 2
    /\ handled[1].response = "202 Accepted"
    /\ handled[2].response = "none"
    /\ bpc = "failed"
    /\ bridge_result.kind = "InvalidResponse"
    /\ ~listener_bound

\* C33 as stated: whenever the callback carries an error string, the result is a Network
\* error whose message is that string.
C33_Original ==
    mapped.via = "bridge" /\ mapped.bridge_error.some =>
        mapped.error = Error("Network", mapped.bridge_error.v)

\* C33: when a callback that is not ok carries an error string that is not blank, the
\* result is a Network error whose message is that string without its leading and
\* trailing whitespace, whatever status and body the callback also carries; a blank error
\* string counts as none, and the result is the one the status and the body give.
C33_BridgeErrorIsNetwork ==
    mapped.via = "bridge" /\ mapped.bridge_error.some =>
        IF trim(mapped.bridge_error.v) # <<>>
            THEN mapped.error = Error("Network", trim(mapped.bridge_error.v))
            ELSE mapped.error = map_bridge_http_error(mapped.status, mapped.body, NoText)

\* a callback with status 401, a body with its own error message, and an error string
\* was mapped to Network with the error string
C33_Witness ==
    /\ mapped.via = "bridge"
    /\ mapped.status = SomeStatus(401)
    /\ mapped.body.some
    /\ mapped.body.v.json
    /\ mapped.body.v.error = JsonString(TokenInvalid)
    /\ mapped.bridge_error = SomeText(<<" ", "d", "n", "s">>)
    /\ mapped.error = Error("Network", <<"d", "n", "s">>)

\* C34: the bridged and the direct variant map failures alike: for every status that is
\* no success and every body, map_bridge_http_error without a bridge error and
\* map_http_error give the same error kind and the same message, whichever of the two
\* received the response.
C34_MappingsAgree ==
    /\ mapped.via = "http" =>
            mapped.error = map_bridge_http_error(mapped.status, mapped.body, NoText)
    /\ /\ mapped.via = "bridge"
       /\ ~normalize_optional_string(mapped.bridge_error).some
       /\ mapped.status.some
       /\ ~is_success(mapped.status.v)
       => mapped.error =
            map_http_error(mapped.status.v, IF mapped.body.some THEN mapped.body.v ELSE EmptyBody)

\* the body of the mapped response yields no error-message field and is not blank
NoMessageField(body) ==
    /\ \/ ~body.json
       \/ /\ ~normalize_optional_string(error_member_text(body)).some
          /\ ~normalize_optional_string(message_member_text(body)).some
    /\ trim(body.raw) # <<>>

\* message is the beginning of the raw body
IsExcerpt(message, raw) ==
    /\ Len(message) <= Len(trim(raw))
    /\ message = SubSeq(trim(raw), 1, Len(message))

\* C35: when the body of a failed response yields no error-message field, also when it
\* is no JSON at all, the message of the error is an excerpt of the raw body of at most
\* 300 characters.
C35_FallbackIsExcerpt ==
    /\ mapped.via # "none"
    /\ ~normalize_optional_string(mapped.bridge_error).some
    /\ mapped.body.some
    /\ NoMessageField(mapped.body.v)
    => /\ IsExcerpt(mapped.error.message, mapped.body.v.raw)
       /\ Len(mapped.error.message) <= TRUNCATE_LEN

\* positions of a call in which it has a browser view, a listener or a request under way
Working == {"window", "warmup", "bind", "eval", "wait", "send"}

Normalized(v) ==
    /\ v # <<>> => Head(v) \notin Whitespace /\ v[Len(v)] \notin Whitespace
    /\ \A i \in 1..Len(v) :
        v[i] \in Whitespace => v[i] = " " /\ (i < Len(v) => v[i + 1] \notin Whitespace)

\* C37: in both provider variants the delta callback, when supplied, has been invoked
\* exactly once when a call returns Ok, with exactly the normalized text that is
\* returned, and is not invoked again after the return; while a call is under way and
\* when it fails the callback has not been invoked; without a callback nothing is
\* invoked.
C37_DeltaOnceOnSuccess ==
    [][\A c \in Callers :
        /\ outcome'[c] = "Ok" =>
                /\ returned'[c].some
                /\ Normalized(returned'[c].v)
                /\ deltas'[c] = IF on_delta'[c] THEN <<returned'[c].v>> ELSE <<>>
        /\ outcome'[c] = "Ok" /\ outcome[c] # "Ok" =>
                /\ vpc[c] \in {"wait", "send"}
                /\ vpc'[c] = "done"
                /\ deltas[c] = <<>>
                /\ returned'[c].v \in {normalize_transcript_text(t) : t \in PayloadTextValues}
        /\ outcome'[c] # "Ok" => deltas'[c] = <<>> /\ ~returned'[c].some
        /\ vpc[c] = "done" => deltas'[c] = deltas[c] /\ returned'[c] = returned[c]
        /\ vpc[c] # "idle" => on_delta'[c] = on_delta[c]
    ]_vars

\* a bridged and a direct call, each with a delta callback, returned Ok: each callback
\* was invoked once with the text returned, which differs from the text received
C37_Witness ==
    \E c, d \in Callers :
        /\ via[c] = "webview" /\ via[d] = "http"
        /\ on_delta[c] /\ on_delta[d]
        /\ outcome[c] = "Ok" /\ outcome[d] = "Ok"
        /\ returned[c] = SomeText(<<"h", "i", " ", "y", "o">>)
        /\ deltas[c] = <<returned[c].v>>
        /\ deltas[d] = <<returned[d].v>>

\* C38: every bridged call releases the request lock with the step that returns, on
\* every exit path; under fair scheduling every bridged call that holds the lock
\* eventually returns, and every caller queued on the lock eventually holds it and starts
\* its own call.
C38_BridgedCallReturns ==
    /\ [][\A c \in Callers :
            via[c] = "webview" /\ vpc[c] # "done" /\ vpc'[c] = "done" =>
                /\ request_lock = c
                /\ request_lock' = 0
                /\ outcome'[c] # "pending"]_vars
    /\ \A c \in Callers :
            (via[c] = "webview" /\ vpc[c] = "lock") ~> (request_lock = c /\ vpc[c] = "auth")
    /\ \A c \in Callers :
            PastLock(c) ~> (vpc[c] = "done" /\ request_lock # c /\ outcome[c] # "pending")

\* two bridged calls returned one after the other, the first by an error of the browser
\* view and the second by the timeout or an error of the wait, and the lock is free
C38_Witness ==
    \E c, d \in Callers :
        /\ c < d
        /\ via[c] = "webview" /\ via[d] = "webview"
        /\ vpc[c] = "done" /\ vpc[d] = "done"
        /\ outcome[c] = "Provider"
        /\ outcome[d] = "Network"
        /\ request_lock = 0

\* tasks inside begin_session: before its fetch_add, or between fetch_add and store
Beginning == {t \in Tasks : pc[t] \in {"begin_fetch", "begin_store"}}
Storing == {t \in Tasks : pc[t] = "begin_store"}

\* no begin_session is between its two steps, and the active id is the latest issued
Settled == Storing = {} => active_session_id = next_session_id

\* C39: the ids begin_session issues are strictly increasing; a trigger task is inside
\* begin_session only while it holds the execution lock, so at most one task is, and the
\* two steps of begin_session of different triggers never interleave: whenever no
\* begin_session is between its steps active_session_id equals next_session_id, the id
\* issued last, and the active id never goes back to an older one.
C39_BeginSessionUnderLock ==
    /\ Settled
    /\ [][/\ Settled'
          /\ \A t \in Beginning' : execution_lock' = t
          /\ \A t \in Storing' :
                /\ fetched'[t] = next_session_id'
                /\ active_session_id' = next_session_id' - 1
          /\ \A t \in Tasks :
                /\ fetched'[t] # fetched[t] =>
                        /\ fetched'[t] = next_session_id + 1
                        /\ next_session_id' = next_session_id + 1
                        /\ \A u \in Tasks : fetched'[t] > fetched[u]
                        /\ \A u \in Tasks : session[u] # None => fetched'[t] > session[u]
                /\ session'[t] # session[t] =>
                        /\ session'[t] = fetched[t]
                        /\ active_session_id' = session'[t]
                        /\ active_session_id' = active_session_id + 1
          /\ active_session_id' >= active_session_id
          /\ next_session_id' >= next_session_id
       ]_vars

\* the third trigger is between the two steps of begin_session: it has fetched id 3 while
\* 2, the id of the trigger before it, is still the active one
C39_Witness ==
    \E t \in Tasks :
        /\ pc[t] = "begin_store"
        /\ execution_lock = t
        /\ fetched[t] = 3
        /\ next_session_id = 3
        /\ active_session_id = 2
        /\ \E u \in Tasks : session[u] = 2 /\ pc[u] = "done"

\* the transcriptions, and the words, of every day of the stats
DailyTranscriptions(stats) ==
    [key \in DOMAIN stats.daily_stats |-> stats.daily_stats[key].transcriptions]
DailyWords(stats) ==
    [key \in DOMAIN stats.daily_stats |-> stats.daily_stats[key].words]

\* the sum of limb i of the u64 values of f
RECURSIVE limb_sum(_, _)
limb_sum(f, i) ==
    IF DOMAIN f = {} THEN 0
    ELSE LET key == CHOOSE key \in DOMAIN f : TRUE
         IN  f[key][i] + limb_sum([other \in DOMAIN f \ {key} |-> f[other]], i)

\* the sum of the u64 values of f as five limbs, the first one what exceeds 64 bits
wide_sum(f) ==
    LET s4 == limb_sum(f, 4)
        s3 == limb_sum(f, 3) + (s4 \div 65536)
        s2 == limb_sum(f, 2) + (s3 \div 65536)
        s1 == limb_sum(f, 1) + (s2 \div 65536)
    IN  <<s1 \div 65536, s1 % 65536, s2 % 65536, s3 % 65536, s4 % 65536>>

\* the totals are the sums over the days
TotalsAreSums(stats) ==
    /\ Wide(stats.total_transcriptions) = wide_sum(DailyTranscriptions(stats))
    /\ Wide(stats.total_words) = wide_sum(DailyWords(stats))

\* the totals are the sums over the days, stopped at u64::MAX
TotalsAreCappedSums(stats) ==
    /\ stats.total_transcriptions = Capped(wide_sum(DailyTranscriptions(stats)))
    /\ stats.total_words = Capped(wide_sum(DailyWords(stats)))

\* this step is a record_transcription call going through the lock, or a reset
RecordOrReset ==
    \/ \E c \in Recorders : spc[c] = "lock" /\ spc'[c] = "idle"
    \/ stats_last' = "reset" /\ stats_file' = JsonStats(UsageStats_default(today))

\* the stats hold no day but those the store has written since it was created
OwnDays(stats) == DOMAIN stats.daily_stats \subseteq {date_key(day) : day \in 0..today}

\* C40 as stated: the totals of the fresh store are the sums over its days, and every
\* record_transcription and reset_usage_stats, in any interleaving, leads from stats of
\* the store's own whose totals are the sums over the days to stats whose totals are.
C40_Original ==
    /\ TotalsAreSums(Stats)
    /\ [][\A before \in {Stats}, after \in {Stats'} :
            RecordOrReset /\ OwnDays(before) /\ TotalsAreSums(before)
                => TotalsAreSums(after)]_vars

\* u64 a <= u64 b
u64_le(a, b) ==
    \/ a = b
    \/ \E i \in 1..4 : a[i] < b[i] /\ \A j \in 1..(i - 1) : a[j] = b[j]

\* C40: starting from a freshly created stats store, after any sequence and any
\* interleaving of record_transcription and reset_usage_stats calls,
\* total_transcriptions is the sum of the transcriptions of the days and total_words the
\* sum of the words of the days, each stopped at u64::MAX; a record that goes through
\* the lock counts on top of what every record before it left: no day and no total
\* goes down by it, and the total of transcriptions goes up by one.
C40_TotalsMatchDays ==
    /\ TotalsAreCappedSums(Stats)
    /\ [][\A before \in {Stats}, after \in {Stats'} :
            /\ RecordOrReset /\ TotalsAreCappedSums(before) => TotalsAreCappedSums(after)
            /\ (\E c \in Recorders : spc[c] = "lock" /\ spc'[c] = "idle") =>
                    /\ after.total_transcriptions
                            = saturating_add(before.total_transcriptions, U64(1))
                    /\ u64_le(before.total_words, after.total_words)
                    /\ \A key \in DOMAIN before.daily_stats :
                            /\ key \in DOMAIN after.daily_stats
                            /\ u64_le(before.daily_stats[key].transcriptions,
                                      after.daily_stats[key].transcriptions)
                            /\ u64_le(before.daily_stats[key].words,
                                      after.daily_stats[key].words)
       ]_vars

\* two record_transcription calls overlapped across midnight: the second went through
\* the lock first, on the new day, and the first, which had read the day before, after
\* it; both are counted, each on its day
C40_Witness ==
    /\ today = 1
    /\ stats_last = "record"
    /\ \A c \in Recorders : spc[c] = "idle"
    /\ Stats.total_transcriptions = U64(2)
    /\ Stats.total_words = U64(10)
    /\ DayOf(Stats, date_key(0)).transcriptions = U64(1)
    /\ DayOf(Stats, date_key(1)).transcriptions = U64(1)
    /\ Stats.last_updated = date_key(0)

====
